---- MODULE Spec2Model ----
(***************************************************************************)
(* Model of the recording core of tiktok_recorder.py:                      *)
(*   - Recorder (start / _start_ffmpeg / _start_ytdlp / _monitor /         *)
(*     _complete / stop / _complete_after_stop), one step per statement    *)
(*     group between which another thread can change what the group reads; *)
(*   - MultiRecorder (start / stop_all) with its lock;                     *)
(*   - Recorder._convert_to_mp4 / _cleanup_flv over a small file system,   *)
(*     followed by _finalize_recording and the queries made after it;      *)
(*   - TikTokAPI.get_live_info with its two strategies.                    *)
(* The specifications share the variables:                                 *)
(*   Spec          the MultiRecorder registry driven by caller threads,    *)
(*   SpecRecorder  the standalone Recorder (TikTokApp.recorder) driven by  *)
(*                 caller threads calling start() and stop(),              *)
(*   SpecFair      the registry used for one handle, with fair threads,    *)
(*   SpecFinalize  one run of _complete / _convert_to_mp4 /                *)
(*                 _finalize_recording,                                    *)
(*   SpecLiveInfo  one call of get_live_info.                              *)
(***************************************************************************)
EXTENDS Integers, Sequences, FiniteSets, TLC

\* ------------------------------------------------------------------ bounds
\* Recorder objects the registry may construct in one behaviour.
MaxSessions == 2
\* start() calls the standalone Recorder may accept in one behaviour.
MaxStarts == 2
\* Unreferenced capture processes still running when a start() call is made.
MaxOrphans == 1
\* Consecutive monitor iterations in which the tracked file does not grow.
MaxStuck == 2

Handles == {"alice", "bob"}
SoloHandles == {"alice"}
Threads == {"t1", "t2"}
Sessions == 1..MaxSessions

MonPcs == {"loop", "check", "c_guard", "c_set", "convert"}

VARIABLES
    \* Recorder fields, per Recorder object
    username,       \* "-" : object not constructed, "" : constructed, else handle
    is_recording,
    is_stopping,
    stop_event,
    process,        \* self.process: "None", or the state of the Popen it refers to
    orphans,        \* capture processes still running that self.process no longer refers to
    last_error,     \* self._last_error: "None", or the tool the message starts with
    monitors,       \* running _monitor threads of the object, counted per position
    stuck_count,    \* stuck_count of the object's monitor thread (one count for
                    \* all of them when several run at once)
    \* MultiRecorder fields
    recorders,      \* handle -> Recorder object (0: key absent)
    lock,           \* holder of MultiRecorder._lock, or "free"
    \* caller threads: position, Recorder operated on, calling context,
    \* handle argument, result of the last call, stop_all's remaining values
    pc, tses, tctx, targ, tret, todo,
    \* history
    started,        \* starts that returned True, per object
    finalized,      \* runs of _finalize_recording, per object
    admitted,       \* objects that were stored in the registry
    stopRuns,       \* stop() calls that passed the guard since the object's last reset
    notified,       \* notify_record_start calls, per object
    duel,           \* two overlapping MultiRecorder.start calls for one handle
    \* files of the session being finalized: path -> size in bytes, -1: no file
    fs,
    \* Recorder fields read and written by finalization
    raw_recording_file, actual_recording_file, output_file,
    \* _complete / _convert_to_mp4: position and local variables
    fpc, input_file, file_size, mp4_output, original_flv, step, returncode,
    \* history of the finalization
    fs0,            \* the files when finalization started
    raw0,           \* the file _find_actual_file returned
    accepted,       \* the ladder step whose output was accepted (0: none)
    ran,            \* the ladder steps that were run
    outcome,        \* the return statement _convert_to_mp4 left through
    \* _finalize_recording and the queries after it
    now,                \* time.time(), in seconds
    first_write_time,   \* Recorder._first_write_time
    on_complete,        \* a completion callback is registered
    config,             \* AppConfig: the totals
    noticed,            \* the arguments notify_record_end was called with
    completed,          \* the arguments on_complete was called with
    asked,              \* what the last queries after finalization returned
    \* TikTokAPI.get_live_info
    lpc,                \* position of the call
    uname,              \* username after line 497
    yt_in, web_in,      \* what yt-dlp and the live page do during the call
    yt_result, web_result,
    tried,              \* the strategies that were run
    result,             \* the dictionary the call returned
    earlier,            \* the call before this one: what it returned
    \* TikTokApp._monitor_loop
    monitoring,         \* TikTokApp.monitoring
    wpc,                \* position of the loop's thread
    widx,               \* position of the for loop in the list of handles
    cycle,              \* passes of the while loop begun
    info,               \* per handle: what get_live_info did in this cycle
    rec,                \* per handle: what multi.is_recording did
    began,              \* per handle: what multi.start did
    status,             \* self.user_status, per handle
    \* Recorder._generate_filename and the files of the output directory
    filename_pattern,   \* AppConfig.filename_pattern, as its sequence of tokens
    dir,                \* the files in config.output_dir
    tnow,               \* the clock: second and millisecond
    npc,                \* per session: where it is between start and end
    nout,               \* per session: output_file as start() generated it
    nraw,               \* per session: _raw_recording_file
    nsec,               \* per session: the second it was started in
    clobbered,          \* per session: the raw path existed when the capture opened it
    overwrote,          \* per session: the .mp4 path existed when the conversion wrote it
    made,               \* the path the last _generate_filename call returned
    existed,            \* that path existed when it was returned
    gens,               \* _generate_filename calls made at one clock value
    \* Watchlist and the keys of MultiRecorder.recorders, as strings
    users,              \* Watchlist.users
    keys,               \* the keys of MultiRecorder.recorders
    recording,          \* the keys whose Recorder is recording
    \* _finalize_recording of several sessions that share one AppConfig
    spc,                \* per session: position in lines 1230-1238
    sreg,               \* per session: the value the running += has read
    ssize,              \* per session: os.path.getsize(output_file), -1: no file
    \* the threads that run TikTokApp._monitor_loop
    lps,                \* per thread: position ("none": not spawned)
    lidx,               \* per thread: position of its for loop in the list
    lnap,               \* per thread: one-second sleeps left in the pause
    \* Recorder.stop from the graceful request to self.process = None
    kpc,                \* position of the call
    platform,           \* sys.platform: "win32" or "unix"
    kproc,              \* self.process: "none", or the process: "alive",
                        \* "exited", "reaped" (exit status collected)
    sent,               \* what stop() did to the process, in order
    kwaited,            \* seconds of the graceful wait that have passed
    \* one call of Recorder.start, its capture tools
    cpc,                \* position of the call
    stream_url,         \* the stream_url argument ("": none)
    launched,           \* the Popen calls that succeeded, in order: tool, URL,
                        \* output path, and what the poll found
    cret,               \* what the call returned
    cold,               \* the path the previous session's finalizer has yet to put
                        \* in output_file, or NoFile
    \* one selection of a stream URL
    qpc,                \* "call", or which selection ran
    quality,            \* the quality argument
    cands,              \* the candidates in collection order: key and URL
    chosen              \* the URL returned ("None": None)

recVars == <<username, is_recording, is_stopping, stop_event, process, orphans,
            last_error>>
regVars == <<recorders, lock>>
thrVars == <<pc, tses, tctx, targ, tret, todo>>
histVars == <<started, finalized, admitted, stopRuns, notified, duel>>
coreVars == <<recVars, monitors, stuck_count, regVars, thrVars, histVars>>
finFields == <<raw_recording_file, actual_recording_file, output_file>>
finLocals == <<fpc, input_file, file_size, mp4_output, original_flv, step, returncode>>
finHist == <<fs0, raw0, accepted, ran, outcome>>
finVars == <<fs, finFields, finLocals, finHist>>
endVars == <<now, first_write_time, on_complete, config, noticed, completed, asked>>
liveVars == <<lpc, uname, yt_in, web_in, yt_result, web_result, tried, result, earlier>>
watchVars == <<monitoring, wpc, widx, cycle, info, rec, began, status>>
nameVars == <<filename_pattern, dir, tnow, npc, nout, nraw, nsec, clobbered, overwrote,
             made, existed, gens>>
keyVars == <<users, keys, recording>>
statVars == <<spc, sreg, ssize>>
loopVars == <<lps, lidx, lnap>>
killVars == <<kpc, platform, kproc, sent, kwaited>>
capVars == <<cpc, stream_url, launched, cret, cold>>
selVars == <<qpc, quality, cands, chosen>>
lateVars == <<loopVars, killVars, capVars, selVars>>
moreVars == <<keyVars, statVars, lateVars>>
extVars == <<watchVars, nameVars, moreVars>>
vars == <<coreVars, finVars, endVars, liveVars, extVars>>

NoMonitors == [p \in MonPcs |-> 0]
NoDuel == [st |-> "off", h |-> "alice", by |-> {}]

\* ------------------------------------------------------------ helpers
\* The statement a call returns to.
StartReturnPc(t) == IF tctx[t] = "multi" THEN "m_reg" ELSE "idle"
StopReturnPc(t) == IF tctx[t] = "stop_all" THEN "sa_loop" ELSE "idle"

MonCount(s) == monitors[s]["loop"] + monitors[s]["check"] + monitors[s]["c_guard"]
                 + monitors[s]["c_set"] + monitors[s]["convert"]

\* threading.Thread(target=self._monitor).start()
MonSpawn(s) == [monitors EXCEPT ![s]["loop"] = @ + 1]
MonMove(s, from, to) == [monitors EXCEPT ![s][from] = @ - 1, ![s][to] = @ + 1]
MonExit(s, from) == [monitors EXCEPT ![s][from] = @ - 1]

\* A capture process of handle h died or could not be spawned, or a stop was
\* requested: "the capture process starts and stays alive" is over for h.
Disturb(h) == IF duel.h = h THEN NoDuel ELSE duel

\* ------------------------------------------------------ Recorder.start
\* line 829: if self.is_recording: return False
StartRejected(s) == is_recording[s]

RStartGuard(t) ==
    /\ pc[t] = "r_guard"
    /\ IF StartRejected(tses[t])
         THEN /\ pc' = [pc EXCEPT ![t] = StartReturnPc(t)]
              /\ tret' = [tret EXCEPT ![t] = "False"]
         ELSE /\ pc' = [pc EXCEPT ![t] = "r_reset"]
              /\ tret' = tret
    /\ UNCHANGED <<finVars, endVars, liveVars, extVars, recVars, monitors, stuck_count, regVars, tses, tctx, targ, todo, histVars>>

\* self.process = subprocess.Popen(...): the reference to an earlier process is
\* dropped; if that process still runs it keeps running unreferenced.
Spawn(s) ==
    /\ process' = [process EXCEPT ![s] = "alive"]
    /\ orphans' = [orphans EXCEPT ![s] = IF process[s] = "alive" THEN @ + 1 ELSE @]

\* lines 842, 862-865, 915-917: self._last_error after the reset and the
\* attempt to spawn ffmpeg ("FFmpeg not found", "FFmpeg error: ...")
FfmpegError(ffmpeg) ==
    IF ffmpeg \in {"missing", "error"} THEN "FFmpeg" ELSE "None"

\* Mutant of PollError: the failed poll records no error.
PollError_Silent(tool) == "None"

\* lines 897-901, 915-917 / 951-955, 969-971: self._last_error when the poll
\* after the grace window does not find a running process: "<tool> failed:
\* ..." for a process that has exited, "<tool> error: ..." when self.process is
\* None and the AttributeError is caught
PollError(tool) == tool

\* lines 832-892: the fields are reset and the file name is generated; with a
\* stream URL, _find_ffmpeg and Popen of ffmpeg
RStartReset(t) ==
    /\ pc[t] = "r_reset"
    /\ username' = [username EXCEPT ![tses[t]] = targ[t]]
    /\ is_stopping' = [is_stopping EXCEPT ![tses[t]] = FALSE]
    /\ stop_event' = [stop_event EXCEPT ![tses[t]] = FALSE]
    /\ stopRuns' = [stopRuns EXCEPT ![tses[t]] = 0]
    /\ \E ffmpeg \in {"no_url", "missing", "error", "spawned"} :
         /\ last_error' = [last_error EXCEPT ![tses[t]] = FfmpegError(ffmpeg)]
         /\ IF ffmpeg = "spawned"
              THEN /\ Spawn(tses[t])
                   /\ pc' = [pc EXCEPT ![t] = "ff_poll"]
              ELSE /\ pc' = [pc EXCEPT ![t] = "yt_spawn"]
                   /\ UNCHANGED <<process, orphans>>
    /\ UNCHANGED <<finVars, endVars, liveVars, extVars, is_recording, monitors, stuck_count, regVars, tses, tctx, targ, tret, todo,
                   started, notified, finalized, admitted, duel>>

\* Mutant of Noticed: the start is not announced.
Noticed_Silent(s) == notified

\* lines 907, 961: self.notifier.notify_record_start(self.username)
Noticed(s) == [notified EXCEPT ![s] = @ + 1]

\* lines 903-913 / 957-967: the capture process survived the grace window
StartSucceeds(t) ==
    /\ is_recording' = [is_recording EXCEPT ![tses[t]] = TRUE]
    /\ monitors' = MonSpawn(tses[t])
    /\ stuck_count' = [stuck_count EXCEPT ![tses[t]] = 0]
    /\ notified' = Noticed(tses[t])
    /\ started' = [started EXCEPT ![tses[t]] = @ + 1]
    /\ pc' = [pc EXCEPT ![t] = StartReturnPc(t)]
    /\ tret' = [tret EXCEPT ![t] = "True"]

\* lines 895-917: after time.sleep(1.5), self.process.poll(); an exited
\* process, or self.process set to None meanwhile, makes _start_ffmpeg fail
FfPoll(t) ==
    /\ pc[t] = "ff_poll"
    /\ IF process[tses[t]] = "alive"
         THEN /\ StartSucceeds(t)
              /\ UNCHANGED last_error
         ELSE /\ pc' = [pc EXCEPT ![t] = "yt_spawn"]
              /\ last_error' = [last_error EXCEPT ![tses[t]] =
                                  PollError("FFmpeg")]
              /\ UNCHANGED <<is_recording, monitors, stuck_count, started, notified, tret>>
    /\ UNCHANGED <<finVars, endVars, liveVars, extVars, username, is_stopping, stop_event, process, orphans, regVars,
                   tses, tctx, targ, todo, finalized, admitted, stopRuns, duel>>

\* lines 857-858: self.is_recording = False; return False
StartFails(t) ==
    /\ is_recording' = [is_recording EXCEPT ![tses[t]] = FALSE]
    /\ pc' = [pc EXCEPT ![t] = StartReturnPc(t)]
    /\ tret' = [tret EXCEPT ![t] = "False"]

\* lines 919-946, 969-971: Popen of yt-dlp
YtSpawn(t) ==
    /\ pc[t] = "yt_spawn"
    /\ \E ytdlp \in {"error", "spawned"} :
         IF ytdlp = "spawned"
           THEN /\ Spawn(tses[t])
                /\ pc' = [pc EXCEPT ![t] = "yt_poll"]
                /\ UNCHANGED <<is_recording, tret, duel, last_error>>
           ELSE /\ StartFails(t)
                /\ last_error' = [last_error EXCEPT ![tses[t]] = "yt-dlp"]
                /\ duel' = Disturb(targ[t])
                /\ UNCHANGED <<process, orphans>>
    /\ UNCHANGED <<finVars, endVars, liveVars, extVars, username, is_stopping, stop_event, monitors, stuck_count, regVars,
                   tses, tctx, targ, todo, started, notified, finalized, admitted, stopRuns>>

\* lines 949-971, 857-858: after time.sleep(2), self.process.poll()
YtPoll(t) ==
    /\ pc[t] = "yt_poll"
    /\ IF process[tses[t]] = "alive"
         THEN /\ StartSucceeds(t)
              /\ UNCHANGED last_error
         ELSE /\ StartFails(t)
              /\ last_error' = [last_error EXCEPT ![tses[t]] =
                                  PollError("yt-dlp")]
              /\ UNCHANGED <<monitors, stuck_count, started, notified>>
    /\ UNCHANGED <<finVars, endVars, liveVars, extVars, username, is_stopping, stop_event, process, orphans, regVars,
                   tses, tctx, targ, todo, finalized, admitted, stopRuns, duel>>

\* ------------------------------------------------------- Recorder.stop
\* line 1250: if not self.is_recording or self.is_stopping: return
StopRejected(s) == ~is_recording[s] \/ is_stopping[s]

StopGuard(t) ==
    /\ pc[t] = "s_guard"
    /\ IF StopRejected(tses[t])
         THEN /\ pc' = [pc EXCEPT ![t] = StopReturnPc(t)]
              /\ stopRuns' = stopRuns
         ELSE /\ pc' = [pc EXCEPT ![t] = "s_set"]
              /\ stopRuns' = [stopRuns EXCEPT ![tses[t]] = @ + 1]
    /\ UNCHANGED <<finVars, endVars, liveVars, extVars, recVars, monitors, stuck_count, regVars, tses, tctx, targ, tret, todo,
                   started, notified, finalized, admitted, duel>>

\* lines 1253-1286: self.is_stopping = True; self._stop_event.set(); then, if
\* self.process, the graceful request ('q' on stdin, or SIGINT to the process
\* group). With no process, or one that is gone already (killpg raises, the
\* handlers at 1291-1304 swallow it), nothing is waited for.
StopSet(t) ==
    /\ pc[t] = "s_set"
    /\ is_stopping' = [is_stopping EXCEPT ![tses[t]] = TRUE]
    /\ stop_event' = [stop_event EXCEPT ![tses[t]] = TRUE]
    /\ pc' = [pc EXCEPT ![t] = IF process[tses[t]] = "alive" THEN "s_wait" ELSE "s_mark"]
    /\ duel' = Disturb(username[tses[t]])
    /\ UNCHANGED <<finVars, endVars, liveVars, extVars, username, last_error, is_recording, process, orphans, monitors, stuck_count, regVars,
                   tses, tctx, targ, tret, todo, started, notified, finalized, admitted, stopRuns>>

\* Mutant of WaitOver: wait() is called without a timeout.
WaitOver_NoTimeout(s) == process[s] # "alive"

\* lines 1271, 1286, 1290: self.process.wait(timeout=...) is over: the process
\* has exited or the timeout has expired, whichever comes first
WaitOver(s) == TRUE

\* lines 1271-1304: self.process.wait(timeout=5) returns once the process has
\* exited; on timeout the process tree is killed (taskkill /F /T, SIGKILL) and
\* waited for for at most 3 more seconds; every exception, the second
\* TimeoutExpired included, is swallowed by the handlers at 1291-1304. The
\* process is gone by then, or it has survived the kill.
\* When self.process has become None the AttributeError is swallowed.
StopWait(t) ==
    /\ pc[t] = "s_wait"
    /\ WaitOver(tses[t])
    /\ \E gone \in BOOLEAN :
         process' = [process EXCEPT ![tses[t]] =
                       IF @ = "alive" /\ gone THEN "exited" ELSE @]
    /\ pc' = [pc EXCEPT ![t] = "s_mark"]
    /\ UNCHANGED <<finVars, endVars, liveVars, extVars, username, last_error, is_recording, is_stopping, stop_event, orphans, monitors, stuck_count,
                   regVars, tses, tctx, targ, tret, todo, histVars>>

\* lines 1306-1310: self.process = None; self.is_recording = False;
\* self.is_stopping = False. A process that is still running is no longer
\* referred to.
StopMark(t) ==
    /\ pc[t] = "s_mark"
    /\ process' = [process EXCEPT ![tses[t]] = "None"]
    /\ orphans' = [orphans EXCEPT ![tses[t]] =
                     IF process[tses[t]] = "alive" THEN @ + 1 ELSE @]
    /\ is_recording' = [is_recording EXCEPT ![tses[t]] = FALSE]
    /\ is_stopping' = [is_stopping EXCEPT ![tses[t]] = FALSE]
    /\ pc' = [pc EXCEPT ![t] = "s_convert"]
    /\ UNCHANGED <<finVars, endVars, liveVars, extVars, username, last_error, stop_event, monitors, stuck_count, regVars,
                   tses, tctx, targ, tret, todo, histVars>>

\* lines 1313, 1062-1072, 1224-1246: _complete_after_stop: _find_actual_file,
\* _convert_to_mp4, _finalize_recording; then stop() returns
StopComplete(t) ==
    /\ pc[t] = "s_convert"
    /\ finalized' = [finalized EXCEPT ![tses[t]] = @ + 1]
    /\ pc' = [pc EXCEPT ![t] = StopReturnPc(t)]
    /\ UNCHANGED <<finVars, endVars, liveVars, extVars, recVars, monitors, stuck_count, regVars, tses, tctx, targ, tret, todo,
                   started, notified, admitted, stopRuns, duel>>

\* --------------------------------------------------- Recorder._monitor
\* line 982: while not self._stop_event.is_set() and self.is_recording
MonLoop(s) ==
    /\ monitors[s]["loop"] > 0
    /\ IF ~stop_event[s] /\ is_recording[s]
         THEN /\ monitors' = MonMove(s, "loop", "check")
              /\ UNCHANGED stuck_count
         ELSE /\ monitors' = MonExit(s, "loop")
              /\ stuck_count' = [stuck_count EXCEPT ![s] = 0]
    /\ UNCHANGED <<finVars, endVars, liveVars, extVars, recVars, regVars, thrVars, histVars>>

\* Mutant of ProcessEnded: the poll result is tested the wrong way round.
ProcessEnded_Inverted(s) == process[s] = "alive"

\* line 1003: self.process and self.process.poll() is not None
ProcessEnded(s) == process[s] = "exited"

\* Mutant of StillGoing: the monitor gives up once the file has stopped growing.
StillGoing_Watchdog(s) == stuck_count[s] < MaxStuck

\* lines 991-1000: a file that does not grow, or that is not found, does not
\* end the loop ("don't stop - let user decide")
StillGoing(s) == TRUE

\* lines 984-1000: the tracked file is looked up and measured: no file is
\* found, or it has grown since the last iteration (stuck_count = 0), or it
\* has not (stuck_count += 1); nothing reads the count
Tracked(count, file) ==
    CASE file = "grown" -> 0
      [] file = "same" -> count + 1
      [] OTHER -> count

\* lines 984-1007: the file is tracked; if self.process and
\* self.process.poll() is not None: self._complete(); otherwise time.sleep(0.5).
\* (self.process is read twice; when it becomes None in between, the
\* AttributeError ends the thread, which is where the loop ends anyway once
\* stop() has set the event.)
MonCheck(s) ==
    /\ monitors[s]["check"] > 0
    /\ \E file \in {"none", "grown", "same"} :
         /\ file = "same" => stuck_count[s] < MaxStuck
         /\ IF ProcessEnded(s) \/ ~StillGoing(s)
              THEN /\ monitors' = MonMove(s, "check", "c_guard")
                   /\ stuck_count' = [stuck_count EXCEPT ![s] = 0]
              ELSE /\ monitors' = MonMove(s, "check", "loop")
                   /\ stuck_count' = [stuck_count EXCEPT ![s] = Tracked(@, file)]
    /\ UNCHANGED <<finVars, endVars, liveVars, extVars, recVars, regVars, thrVars, histVars>>

\* lines 1048-1049: if not self.is_recording: return (then line 1005: break)
MonCompleteGuard(s) ==
    /\ monitors[s]["c_guard"] > 0
    /\ monitors' = IF ~is_recording[s]
                     THEN MonExit(s, "c_guard")
                     ELSE MonMove(s, "c_guard", "c_set")
    /\ UNCHANGED <<stuck_count, finVars, endVars, liveVars, extVars, recVars, regVars, thrVars, histVars>>

\* line 1050: self.is_recording = False
MonCompleteSet(s) ==
    /\ monitors[s]["c_set"] > 0
    /\ is_recording' = [is_recording EXCEPT ![s] = FALSE]
    /\ monitors' = MonMove(s, "c_set", "convert")
    /\ UNCHANGED <<stuck_count, finVars, endVars, liveVars, extVars, username, last_error, is_stopping, stop_event, process, orphans, regVars,
                   thrVars, histVars>>

\* lines 1052-1060, 1224-1246: _find_actual_file, _convert_to_mp4,
\* _finalize_recording; line 1005: break
MonComplete(s) ==
    /\ monitors[s]["convert"] > 0
    /\ finalized' = [finalized EXCEPT ![s] = @ + 1]
    /\ monitors' = MonExit(s, "convert")
    /\ UNCHANGED <<stuck_count, finVars, endVars, liveVars, extVars, recVars, regVars, thrVars, started, notified, admitted, stopRuns, duel>>

\* ------------------------------------------------- the capture process
\* The capture process referred to by self.process exits on its own.
ProcExit(s) ==
    /\ process[s] = "alive"
    /\ process' = [process EXCEPT ![s] = "exited"]
    /\ duel' = Disturb(username[s])
    /\ UNCHANGED <<finVars, endVars, liveVars, extVars, username, last_error, is_recording, is_stopping, stop_event, orphans, monitors, stuck_count,
                   regVars, thrVars, started, notified, finalized, admitted, stopRuns>>

\* A capture process that is no longer referred to exits on its own.
OrphanExit(s) ==
    /\ orphans[s] > 0
    /\ orphans' = [orphans EXCEPT ![s] = @ - 1]
    /\ UNCHANGED <<finVars, endVars, liveVars, extVars, username, last_error, is_recording, is_stopping, stop_event, process, monitors, stuck_count,
                   regVars, thrVars, histVars>>

\* ------------------------------------------------------- MultiRecorder
\* Mutant of LockFree: start() does not take the lock.
LockFree_NoLock == TRUE

\* line 1355: with self._lock
LockFree == lock = "free"

\* Mutant of MultiStartRejected: the registry never looks at the existing entry.
MultiStartRejected_NoCheck(h) == FALSE

\* line 1356: username in self.recorders and self.recorders[username].is_recording
MultiStartRejected(h) == recorders[h] # 0 /\ is_recording[recorders[h]]

Constructed == {s \in Sessions : username[s] # "-"}
InMultiStart(u, h) == tctx[u] = "multi" /\ pc[u] # "idle" /\ targ[u] = h

\* A capture process of an earlier session of h outlived that session's stop().
Lingering(h) == \E s \in Sessions : username[s] = h /\ orphans[s] > 0

\* The history of two overlapping start(h) calls: "one" while a first call made
\* with no active session for h (and no capture process left of an earlier
\* one) is in flight, "two" once a second call for h was made by another
\* thread before the first returned.
DuelAfterCall(t, h) ==
    LET base == IF t \in duel.by \/ (duel.h = h /\ duel.st = "two") \/ Lingering(h)
                  THEN NoDuel ELSE duel
    IN CASE base.st = "one" /\ base.h = h /\ ~MultiStartRejected(h)
              /\ (\A u \in base.by : InMultiStart(u, h))
              -> [st |-> "two", h |-> h, by |-> base.by \cup {t}]
         [] base.st = "off" /\ ~MultiStartRejected(h) /\ ~Lingering(h)
              /\ ~(\E u \in Threads \ {t} : InMultiStart(u, h))
              -> [st |-> "one", h |-> h, by |-> {t}]
         [] OTHER -> base

\* A thread calls MultiRecorder.start(h, ...).
MStartCall(t, h) ==
    /\ pc[t] = "idle"
    /\ Cardinality(Constructed) + Cardinality({u \in Threads : pc[u] = "m_lock"})
         < MaxSessions
    /\ pc' = [pc EXCEPT ![t] = "m_lock"]
    /\ tctx' = [tctx EXCEPT ![t] = "multi"]
    /\ targ' = [targ EXCEPT ![t] = h]
    /\ tret' = [tret EXCEPT ![t] = "-"]
    /\ duel' = DuelAfterCall(t, h)
    /\ UNCHANGED <<finVars, endVars, liveVars, extVars, recVars, monitors, stuck_count, regVars, tses, todo,
                   started, notified, finalized, admitted, stopRuns>>

\* A call that returns with no second call made ends the history.
DuelAfterReturn(t) == IF duel.st = "one" /\ t \in duel.by THEN NoDuel ELSE duel

\* lines 1355-1358: the lock is taken, the handle is looked up, and either the
\* call returns False or a Recorder is constructed
MStartLock(t) ==
    /\ pc[t] = "m_lock"
    /\ LockFree
    /\ IF MultiStartRejected(targ[t])
         THEN /\ pc' = [pc EXCEPT ![t] = "idle"]
              /\ tret' = [tret EXCEPT ![t] = "False"]
              /\ tctx' = [tctx EXCEPT ![t] = "solo"]
              /\ duel' = DuelAfterReturn(t)
              /\ UNCHANGED <<username, last_error, lock, tses>>
         ELSE LET s == CHOOSE x \in Sessions \ Constructed :
                         \A y \in Sessions \ Constructed : x <= y
              IN /\ username' = [username EXCEPT ![s] = ""]
                 /\ last_error' = [last_error EXCEPT ![s] = "None"]
                 /\ tses' = [tses EXCEPT ![t] = s]
                 /\ lock' = t
                 /\ pc' = [pc EXCEPT ![t] = "r_guard"]
                 /\ UNCHANGED <<tret, tctx, duel>>
    /\ UNCHANGED <<finVars, endVars, liveVars, extVars, is_recording, is_stopping, stop_event, process, orphans, monitors, stuck_count,
                   recorders, targ, todo, started, notified, finalized, admitted, stopRuns>>

\* Mutant of Stored: the Recorder is stored whatever rec.start returned.
Stored_Always(t) == TRUE

\* lines 1359-1360: if rec.start(...): self.recorders[username] = rec
Stored(t) == tret[t] = "True"

\* lines 1359-1362: rec.start(...) has returned; the Recorder is stored on
\* success, the lock is released
MStartFinish(t) ==
    /\ pc[t] = "m_reg"
    /\ IF Stored(t)
         THEN /\ recorders' = [recorders EXCEPT ![targ[t]] = tses[t]]
              /\ admitted' = admitted \cup {tses[t]}
         ELSE UNCHANGED <<recorders, admitted>>
    /\ lock' = "free"
    /\ pc' = [pc EXCEPT ![t] = "idle"]
    /\ tses' = [tses EXCEPT ![t] = 1]
    /\ tctx' = [tctx EXCEPT ![t] = "solo"]
    /\ duel' = DuelAfterReturn(t)
    /\ UNCHANGED <<finVars, endVars, liveVars, extVars, recVars, monitors, stuck_count, targ, tret, todo, started, notified, finalized, stopRuns>>

\* A thread calls MultiRecorder.stop_all().
StopAllCall(t) ==
    /\ pc[t] = "idle"
    /\ pc' = [pc EXCEPT ![t] = "sa_lock"]
    /\ tctx' = [tctx EXCEPT ![t] = "stop_all"]
    /\ tret' = [tret EXCEPT ![t] = "-"]
    /\ duel' = IF t \in duel.by THEN NoDuel ELSE duel
    /\ UNCHANGED <<finVars, endVars, liveVars, extVars, recVars, monitors, stuck_count, regVars, tses, targ, todo,
                   started, notified, finalized, admitted, stopRuns>>

\* lines 1377-1378: the lock is taken, the iteration over the values starts
StopAllLock(t) ==
    /\ pc[t] = "sa_lock"
    /\ LockFree
    /\ lock' = t
    /\ todo' = [todo EXCEPT ![t] = {recorders[h] : h \in Handles} \ {0}]
    /\ pc' = [pc EXCEPT ![t] = "sa_loop"]
    /\ UNCHANGED <<finVars, endVars, liveVars, extVars, recVars, monitors, stuck_count, recorders, tses, tctx, targ, tret, histVars>>

\* lines 1378-1380: r.stop() for the next value; after the last one
\* self.recorders.clear() and the lock is released
StopAllLoop(t) ==
    /\ pc[t] = "sa_loop"
    /\ IF todo[t] = {}
         THEN /\ recorders' = [h \in Handles |-> 0]
              /\ lock' = "free"
              /\ pc' = [pc EXCEPT ![t] = "idle"]
              /\ tses' = [tses EXCEPT ![t] = 1]
              /\ tctx' = [tctx EXCEPT ![t] = "solo"]
              /\ todo' = todo
         ELSE /\ \E s \in todo[t] :
                   /\ todo' = [todo EXCEPT ![t] = @ \ {s}]
                   /\ tses' = [tses EXCEPT ![t] = s]
              /\ pc' = [pc EXCEPT ![t] = "s_guard"]
              /\ UNCHANGED <<recorders, lock, tctx>>
    /\ UNCHANGED <<finVars, endVars, liveVars, extVars, recVars, monitors, stuck_count, targ, tret, histVars>>

\* ------------------------------- callers of the standalone Recorder
\* TikTokApp._start_recording: self.recorder.start(username, ...)
SoloStartCall(t) ==
    /\ pc[t] = "idle"
    /\ started[1] < MaxStarts
    /\ orphans[1] < MaxOrphans
    /\ \E h \in SoloHandles : targ' = [targ EXCEPT ![t] = h]
    /\ tret' = [tret EXCEPT ![t] = "-"]
    /\ pc' = [pc EXCEPT ![t] = "r_guard"]
    /\ UNCHANGED <<finVars, endVars, liveVars, extVars, recVars, monitors, stuck_count, regVars, tses, tctx, todo, histVars>>

\* TikTokApp._stop_recording / _force_exit: self.recorder.stop()
SoloStopCall(t) ==
    /\ pc[t] = "idle"
    /\ tret' = [tret EXCEPT ![t] = "-"]
    /\ pc' = [pc EXCEPT ![t] = "s_guard"]
    /\ UNCHANGED <<finVars, endVars, liveVars, extVars, recVars, monitors, stuck_count, regVars, tses, tctx, targ, todo, histVars>>

\* --------------------------------------------- the files of a session
\* A path in the output directory: the name without its extension, as the
\* sequence of its parts, and the extension (os.path.splitext).
File(stem, ext) == [stem |-> stem, ext |-> ext]
\* None
NoFile == File(<<>>, "")
\* _generate_filename: <output_dir>/<username>_<timestamp>
Base == <<"rec">>
FileExts == {".flv", ".FLV", ".mp4", ".ts"}
Paths == {File(st, e) : st \in {Base, Base \o <<"_converted">>}, e \in FileExts}

\* Sizes of a captured file when finalization starts.
RawSizes == {40960, 51199, 51200, 100000}
\* Sizes of the file a conversion step leaves for an input of the given size.
OutSizes(size) == {0, 10000, 10001, (3 * size) \div 10, (3 * size) \div 10 + 1,
                   size \div 2, size \div 2 + 1}

\* os.path.exists(p), with "not p or" in front of it
Exists(f, p) == p \in DOMAIN f /\ f[p] >= 0
\* os.remove(p) of an existing file
Remove(f, p) == [f EXCEPT ![p] = -1]
\* str.lower() of an extension
Lower(ext) == IF ext = ".FLV" THEN ".flv" ELSE ext
\* f.startswith(base_name), for a file name f and a name without extension
StartsWith(stem, base) ==
    Len(stem) >= Len(base) /\ SubSeq(stem, 1, Len(base)) = base

\* line 1031: the extensions _find_actual_file probes, in order
Extensions == <<".flv", ".mp4", ".ts", ".mkv", ".webm">>

\* lines 1009-1044: the files _find_actual_file can return; more than one only
\* when the os.listdir scan decides, whose order is the directory's
FindActualFile(f, raw, actual, out) ==
    IF Exists(f, raw) THEN {raw}
    ELSE IF Exists(f, actual) THEN {actual}
    ELSE IF out = NoFile THEN {NoFile}
    ELSE IF Exists(f, out) THEN {out}
    ELSE LET base == out.stem
             hits == {i \in 1..Len(Extensions) : Exists(f, File(base, Extensions[i]))}
             first == CHOOSE i \in hits : \A j \in hits : i <= j
             listed == {p \in DOMAIN f :
                          Exists(f, p) /\ StartsWith(p.stem, base) /\ p.ext # ".txt"}
         IN IF hits # {} THEN {File(base, Extensions[first])}
            ELSE IF listed # {} THEN listed
            ELSE {NoFile}

\* ------------------------------------------ Recorder._convert_to_mp4
MinViableSize == 51200
MinTranscodeSize == 10000

\* Mutant of TooSmall: a file of exactly the minimum size is skipped as well.
TooSmall_Inclusive(size) == size <= MinViableSize

\* line 1099: if file_size < 51200: return
TooSmall(size) == size < MinViableSize

\* Mutant of IsFlv: the extension is compared without lower().
IsFlv_CaseSensitive(p) == p.ext = ".flv"

\* lines 1119, 1218: input_file.lower().endswith('.flv')
IsFlv(p) == Lower(p.ext) = ".flv"

\* Mutant of FailedAttempt: the clean-up removes the step's input.
FailedAttempt_Input == input_file

\* lines 1146-1148, 1173-1175: the file removed after a rejected step
FailedAttempt == mp4_output

\* Mutant of KeptFile: the target path is returned when nothing was converted.
KeptFile_Target == mp4_output

\* lines 1107, 1200, 1205: self.output_file = input_file
KeptFile == input_file

\* lines 1139, 1166, 1193: the size test of ladder step k, for an output of out
\* bytes and an input of size bytes (out > size * 0.5, out > size * 0.3,
\* out > 10000)
SizeAccepted(k, out, size) ==
    CASE k = 1 -> 2 * out > size
      [] k = 2 -> 10 * out > 3 * size
      [] OTHER -> out > MinTranscodeSize

\* lines 1137-1139, 1164-1166, 1191-1193
Verified ==
    /\ returncode = 0
    /\ Exists(fs, mp4_output)
    /\ SizeAccepted(step, fs[mp4_output], file_size)

\* lines 1053-1055 / 1065-1067: actual_file = self._find_actual_file();
\* if actual_file: self.output_file = actual_file
FinFind ==
    /\ fpc = "find"
    /\ \E found \in FindActualFile(fs, raw_recording_file, actual_recording_file,
                                   output_file) :
         /\ output_file' = IF found # NoFile THEN found ELSE output_file
         /\ raw0' = found
    /\ fpc' = "select"
    /\ UNCHANGED <<coreVars, endVars, liveVars, extVars, fs, raw_recording_file, actual_recording_file,
                   input_file, file_size, mp4_output, original_flv, step, returncode,
                   fs0, accepted, ran, outcome>>

\* lines 1088-1102: the input file is chosen and its size is read
FinSelect ==
    /\ fpc = "select"
    /\ LET input == IF Exists(fs, raw_recording_file) THEN raw_recording_file
                    ELSE IF Exists(fs, actual_recording_file) THEN actual_recording_file
                    ELSE output_file
       IN IF ~Exists(fs, input)
            THEN /\ fpc' = "done" /\ outcome' = "nofile"
                 /\ UNCHANGED <<input_file, file_size>>
            ELSE /\ input_file' = input
                 /\ file_size' = fs[input]
                 /\ IF TooSmall(fs[input])
                      THEN fpc' = "done" /\ outcome' = "skipped"
                      ELSE fpc' = "prepare" /\ outcome' = outcome
    /\ UNCHANGED <<coreVars, endVars, liveVars, extVars, fs, finFields, mp4_output, original_flv, step, returncode,
                   fs0, raw0, accepted, ran>>

\* lines 1104-1119: _find_ffmpeg; without the tool the input is kept; with it
\* the target path and the file to delete on success are computed
FinPrepare ==
    /\ fpc = "prepare"
    /\ \E ffmpeg \in BOOLEAN :
         IF ~ffmpeg
           THEN /\ output_file' = KeptFile
                /\ fpc' = "done" /\ outcome' = "notool"
                /\ UNCHANGED <<mp4_output, original_flv, step>>
           ELSE LET target == File(output_file.stem, ".mp4")
                IN /\ mp4_output' = IF input_file = target
                                      THEN File(output_file.stem \o <<"_converted">>, ".mp4")
                                      ELSE target
                   /\ original_flv' = IF IsFlv(input_file) THEN input_file ELSE NoFile
                   /\ step' = 1
                   /\ fpc' = "run"
                   /\ UNCHANGED <<output_file, outcome>>
    /\ UNCHANGED <<coreVars, endVars, liveVars, extVars, fs, raw_recording_file, actual_recording_file,
                   input_file, file_size, returncode, fs0, raw0, accepted, ran>>

\* lines 1134, 1162, 1189 (and 1202-1205): subprocess.run of ladder step `step`
\* with -y and the target path. The tool exits with 0 after writing the target,
\* or with another code with or without having written it; or subprocess.run
\* raises (TimeoutExpired after 1800 s, OSError), which leaves through the
\* except branch.
FinRun ==
    /\ fpc = "run"
    /\ \E rc \in {0, 1}, wrote \in OutSizes(file_size) \cup {-1}, raised \in BOOLEAN :
         /\ rc = 0 => wrote # -1 /\ ~raised
         /\ fs' = IF wrote = -1 THEN fs ELSE [fs EXCEPT ![mp4_output] = wrote]
         /\ IF raised
              THEN /\ output_file' = IF Exists(fs', input_file) THEN KeptFile
                                                               ELSE output_file
                   /\ fpc' = "done" /\ outcome' = "exception"
                   /\ returncode' = returncode
              ELSE /\ returncode' = rc
                   /\ fpc' = "verify"
                   /\ UNCHANGED <<output_file, outcome>>
    /\ ran' = ran \cup {step}
    /\ UNCHANGED <<coreVars, endVars, liveVars, extVars, raw_recording_file, actual_recording_file,
                   input_file, file_size, mp4_output, original_flv, step,
                   fs0, raw0, accepted>>

\* Mutant of NextStep: a rejected remux is followed by the full transcode.
NextStep_Skip(k) == 3

\* lines 1152-1162, 1179-1189: the method that follows a rejected method
\* (1: remux, 2: audio transcode, 3: full transcode)
NextStep(k) == k + 1

\* lines 1137-1150, 1164-1177, 1191-1200: the step's output is verified; a
\* rejected output of step 1 or 2 is removed and the next step follows; after
\* step 3 the input is kept
FinVerify ==
    /\ fpc = "verify"
    /\ IF Verified
         THEN /\ accepted' = step
              /\ fpc' = "cleanup"
              /\ UNCHANGED <<fs, output_file, step, outcome>>
         ELSE IF step < 3
           THEN /\ fs' = IF Exists(fs, FailedAttempt) THEN Remove(fs, FailedAttempt)
                                                      ELSE fs
                /\ step' = NextStep(step)
                /\ fpc' = "run"
                /\ UNCHANGED <<output_file, accepted, outcome>>
           ELSE /\ output_file' = KeptFile
                /\ fpc' = "done" /\ outcome' = "rejected"
                /\ UNCHANGED <<fs, step, accepted>>
    /\ UNCHANGED <<coreVars, endVars, liveVars, extVars, raw_recording_file, actual_recording_file,
                   input_file, file_size, mp4_output, original_flv, returncode,
                   fs0, raw0, ran>>

\* lines 1207-1222: _cleanup_flv(original_flv, input_file)
CleanupFlv(f) ==
    LET f1 == IF original_flv # NoFile /\ Exists(f, original_flv)
                THEN Remove(f, original_flv) ELSE f
    IN IF input_file # NoFile /\ input_file # original_flv /\ Exists(f1, input_file)
            /\ IsFlv(input_file)
         THEN Remove(f1, input_file)
         ELSE f1

\* lines 1141-1143, 1168-1170, 1195-1197: self._cleanup_flv(...);
\* self.output_file = mp4_output; return
FinCleanup ==
    /\ fpc = "cleanup"
    /\ fs' = CleanupFlv(fs)
    /\ output_file' = mp4_output
    /\ fpc' = "done" /\ outcome' = "accepted"
    /\ UNCHANGED <<coreVars, endVars, liveVars, extVars, raw_recording_file, actual_recording_file,
                   input_file, file_size, mp4_output, original_flv, step, returncode,
                   fs0, raw0, accepted, ran>>

\* ------------------------------------------ Recorder._finalize_recording
MinCountedSize == 10240
\* Upper end of the clock.
MaxNow == 62

NoCall == [called |-> FALSE]

\* lines 1318-1324: get_duration(), as <<hours, minutes, seconds>>
GetDuration ==
    IF first_write_time = 0 THEN <<0, 0, 0>>
    ELSE LET elapsed == now - first_write_time
         IN <<elapsed \div 3600, (elapsed % 3600) \div 60, elapsed % 60>>

\* f"{x:.Nf}" of x = n / d as the integer x * 10^N: the nearest one, the even
\* one of two equally near
Rounded(n, d) ==
    LET q == n \div d
        r == n % d
    IN IF 2 * r > d \/ (2 * r = d /\ q % 2 = 1) THEN q + 1 ELSE q

\* lines 1334-1340: the text get_file_size returns, as its number (in tenths
\* for KB and MB, in hundredths for GB) and its unit
FormatSize(size) ==
    IF size < 1024 THEN [n |-> size, unit |-> "B"]
    ELSE IF size < 1024 * 1024 THEN [n |-> Rounded(size * 10, 1024), unit |-> "KB"]
    ELSE IF size < 1024 * 1024 * 1024
      THEN [n |-> Rounded(size * 10, 1024 * 1024), unit |-> "MB"]
    ELSE [n |-> Rounded(size * 100, 1024 * 1024 * 1024), unit |-> "GB"]

\* line 1329: self.actual_recording_file or self._find_actual_file()
FileToCheck ==
    IF actual_recording_file # NoFile THEN {actual_recording_file}
    ELSE FindActualFile(fs, raw_recording_file, actual_recording_file, output_file)

\* lines 1326-1340: the texts get_file_size() can return
GetFileSize ==
    {FormatSize(IF Exists(fs, p) THEN fs[p] ELSE 0) : p \in FileToCheck}

\* lines 1224-1246: _finalize_recording, after _convert_to_mp4 returned
FinFinalize ==
    /\ fpc = "done" /\ ~noticed.called
    /\ \E size \in GetFileSize :
         /\ noticed' = [called |-> TRUE, duration |-> GetDuration, file_size |-> size]
         /\ completed' = IF on_complete
                           THEN [called |-> TRUE, duration |-> GetDuration,
                                 file_size |-> size, output_file |-> output_file]
                           ELSE completed
    /\ config' = IF Exists(fs, output_file) /\ fs[output_file] > MinCountedSize
                   THEN [total_recordings |-> config.total_recordings + 1,
                         total_size_bytes |-> config.total_size_bytes + fs[output_file],
                         total_duration_seconds |->
                           config.total_duration_seconds
                           + (IF first_write_time # 0 THEN now - first_write_time ELSE 0)]
                   ELSE config
    /\ UNCHANGED <<coreVars, finVars, liveVars, extVars, now, first_write_time, on_complete, asked>>

\* Time passes once the conversion is over.
FinTick ==
    /\ fpc = "done" /\ now < MaxNow
    /\ now' = now + 1
    /\ UNCHANGED <<coreVars, finVars, liveVars, extVars, first_write_time, on_complete, config, noticed,
                   completed, asked>>

\* lines 1318-1340, 773: get_duration(), get_file_size() and output_file are
\* read after finalization
FinQuery ==
    /\ fpc = "done" /\ noticed.called
    /\ \E size \in GetFileSize :
         asked' = [called |-> TRUE, duration |-> GetDuration, file_size |-> size,
                   output_file |-> output_file]
    /\ UNCHANGED <<coreVars, finVars, liveVars, extVars, now, first_write_time, on_complete, config,
                   noticed, completed>>

\* ------------------------------------------ TikTokAPI.get_live_info
\* Length of the user names tried.
MaxNameLen == 2
NameChars == {" ", "@", "A", "a"}
Names == UNION {[1..n -> NameChars] : n \in 0..MaxNameLen}

RECURSIVE LStrip(_, _)
\* str.lstrip(chars)
LStrip(str, chars) ==
    IF str # <<>> /\ Head(str) \in chars THEN LStrip(Tail(str), chars) ELSE str

RECURSIVE RStrip(_, _)
\* str.rstrip(chars)
RStrip(str, chars) ==
    IF str # <<>> /\ str[Len(str)] \in chars
      THEN RStrip(SubSeq(str, 1, Len(str) - 1), chars)
      ELSE str

\* str.lower(), one character
LowerChar(c) ==
    CASE c = "A" -> "a" [] c = "H" -> "h" [] c = "D" -> "d" [] OTHER -> c

\* str.lower()
LowerStr(str) == [i \in 1..Len(str) |-> LowerChar(str[i])]

\* line 497: username.strip().lstrip("@").lower()
NormalizeUsername(str) == LowerStr(LStrip(RStrip(LStrip(str, {" "}), {" "}), {"@"}))

\* None
NoError == "None"
\* bool(error)
Truthy(error) == error # NoError /\ error # ""

\* lines 499-503, 534-538, 604-608: the dictionary every path starts from
BlankResult(name) ==
    [success |-> FALSE, is_live |-> FALSE, username |-> name, stream_url |-> "None",
     error |-> NoError]

\* lines 560-562, 649-651, 672-674: result["is_live"] = True;
\* result["success"] = True
MarkLive(r) == [r EXCEPT !.is_live = TRUE, !.success = TRUE]

\* Words of a DownloadError message the except clause looks for (lines 587-594).
Keywords == {"offline", "captcha", "private", "not exist"}

\* lines 585-596: the error text for a DownloadError whose message holds the
\* given words
ClassifyDownloadError(msg) ==
    IF "offline" \in msg THEN "User tidak sedang live"
    ELSE IF "captcha" \in msg THEN "Butuh cookies! Export cookies dari browser."
    ELSE IF "private" \in msg THEN "Live bersifat private"
    ELSE IF "not exist" \in msg THEN "User tidak ditemukan"
    ELSE "yt-dlp: "

\* Mutant of Caught: an except clause catches the named class only.
Caught_Exact(exc, handlers) == exc \in handlers

\* An except clause of the try statement catches the exception: its class is
\* named, or except Exception is there (every class raised here derives from it)
Caught(exc, handlers) == exc \in handlers \/ "Exception" \in handlers

\* lines 585, 597
YtHandlers == {"DownloadError", "Exception"}
\* lines 690, 692
WebHandlers == {"RequestException", "Exception"}

\* What yt-dlp does in a call: extract_info raises; or returns nothing; or
\* returns an info with or without a usable format URL; or returns an info
\* whose formats make lines 564-583 raise (a format_id of None).
YtBehaviours ==
    {[kind |-> "raises", exc |-> "DownloadError", msg |-> m] : m \in SUBSET Keywords}
    \cup {[kind |-> "raises", exc |-> "AttributeError", msg |-> {}]}
    \cup {[kind |-> k, exc |-> "None", msg |-> {}] : k \in {"none", "url", "nourl"}}
    \cup {[kind |-> "broken", exc |-> "AttributeError", msg |-> {}]}

\* What the live page does in a call: the request raises; or the page arrives,
\* with or without the captcha words, with a SIGI_STATE and a __NEXT_DATA__
\* script each absent (or without room), holding a room, or holding a room
\* whose fields make the lines after the marking raise, and with or without
\* the not-hosting sentence.
WebBehaviours ==
    {[exc |-> e, captcha |-> FALSE, sigi |-> "none", next |-> "none",
      nothosting |-> FALSE] : e \in {"RequestException", "AttributeError"}}
    \cup {[exc |-> "None", captcha |-> c, sigi |-> sg, next |-> nx, nothosting |-> nh] :
            c \in BOOLEAN, sg \in {"none", "room", "broken"},
            nx \in {"none", "room", "broken"}, nh \in BOOLEAN}
NoBehaviour == [kind |-> "-"]

\* lines 532-600: _try_ytdlp, when the exception (if any) is caught
TryYtdlp(name, yt) ==
    LET error == IF yt.exc = "DownloadError" THEN ClassifyDownloadError(yt.msg)
                 ELSE "Error: "
    IN CASE yt.kind = "raises" -> [BlankResult(name) EXCEPT !.error = error]
         [] yt.kind = "none" -> BlankResult(name)
         [] yt.kind = "url" -> [MarkLive(BlankResult(name)) EXCEPT !.stream_url = "url"]
         [] yt.kind = "nourl" -> MarkLive(BlankResult(name))
         [] yt.kind = "broken" -> [MarkLive(BlankResult(name)) EXCEPT !.error = error]

\* lines 602-694: _try_web_scrape, when the exception (if any) is caught
TryWebScrape(name, web) ==
    LET blank == BlankResult(name)
        afterSigi == IF web.sigi = "broken" THEN MarkLive(blank) ELSE blank
        afterNext == IF web.next = "broken" THEN MarkLive(afterSigi) ELSE afterSigi
    IN IF web.exc = "RequestException" THEN [blank EXCEPT !.error = "Network error: "]
       ELSE IF web.exc # "None" THEN [blank EXCEPT !.error = "Scrape error: "]
       ELSE IF web.captcha
         THEN [blank EXCEPT !.error = "Butuh cookies! Export cookies dari browser."]
       ELSE IF web.sigi = "room" THEN [MarkLive(blank) EXCEPT !.stream_url = "url"]
       ELSE IF web.next = "room" THEN [MarkLive(afterSigi) EXCEPT !.stream_url = "url"]
       ELSE IF web.nothosting
         THEN [afterNext EXCEPT !.error = "User tidak sedang live"]
       ELSE afterNext

\* lines 496-509: the call starts; an empty name is answered at once. (The
\* object keeps nothing from one call to the next, so one call is followed.)
LiveCall ==
    /\ lpc = "idle"
    /\ \E str \in Names :
         /\ uname' = NormalizeUsername(str)
         /\ IF uname' = <<>>
              THEN /\ result' = [BlankResult(uname') EXCEPT
                                   !.error = "Username tidak boleh kosong"]
                   /\ lpc' = "returned"
                   /\ yt_in' = NoBehaviour /\ web_in' = NoBehaviour
              ELSE /\ result' = BlankResult(uname')
                   /\ lpc' = "ytdlp"
                   /\ yt_in' \in YtBehaviours /\ web_in' \in WebBehaviours
    /\ yt_result' = BlankResult(uname') /\ web_result' = BlankResult(uname')
    /\ tried' = {}
    /\ UNCHANGED <<coreVars, finVars, endVars, extVars, earlier>>

\* Mutant of Succeeded: no strategy is taken to have succeeded.
Succeeded_Never(res) == FALSE

\* lines 513, 519: if yt_result["success"]: / if web_result["success"]:
Succeeded(res) == res.success

\* lines 511-515: yt_result = self._try_ytdlp(...); returned if it succeeded
LiveTryYtdlp ==
    /\ lpc = "ytdlp"
    /\ tried' = tried \cup {"ytdlp"}
    /\ IF yt_in.exc # "None" /\ ~Caught(yt_in.exc, YtHandlers)
         THEN /\ lpc' = "raised"
              /\ UNCHANGED <<yt_result, result>>
         ELSE /\ yt_result' = TryYtdlp(uname, yt_in)
              /\ IF Succeeded(yt_result')
                   THEN /\ result' = [yt_result' EXCEPT !.username = uname]
                        /\ lpc' = "returned"
                   ELSE /\ lpc' = "web"
                        /\ UNCHANGED result
    /\ UNCHANGED <<coreVars, finVars, endVars, extVars, earlier, uname, yt_in, web_in, web_result>>

\* lines 517-521: web_result = self._try_web_scrape(...); returned if it
\* succeeded
LiveTryWebScrape ==
    /\ lpc = "web"
    /\ tried' = tried \cup {"web"}
    /\ IF web_in.exc # "None" /\ ~Caught(web_in.exc, WebHandlers)
         THEN /\ lpc' = "raised"
              /\ UNCHANGED <<web_result, result>>
         ELSE /\ web_result' = TryWebScrape(uname, web_in)
              /\ IF Succeeded(web_result')
                   THEN /\ result' = [web_result' EXCEPT !.username = uname]
                        /\ lpc' = "returned"
                   ELSE /\ lpc' = "merge"
                        /\ UNCHANGED result
    /\ UNCHANGED <<coreVars, finVars, endVars, extVars, earlier, uname, yt_in, web_in, yt_result>>

\* lines 523-531: the error of the blank result is chosen
LiveMerge ==
    /\ lpc = "merge"
    /\ result' = [result EXCEPT !.error =
                     IF Truthy(yt_result.error) THEN yt_result.error
                     ELSE IF Truthy(web_result.error) THEN web_result.error
                     ELSE "Tidak bisa mendapatkan info live"]
    /\ lpc' = "returned"
    /\ UNCHANGED <<coreVars, finVars, endVars, extVars, earlier, uname, yt_in, web_in, yt_result,
                   web_result, tried>>

\* What yt-dlp and the live page can do for a handle that is not live: no info
\* and no room is found.
OfflineYt == {b \in YtBehaviours : b.kind \in {"raises", "none"}}
OfflineWeb == {b \in WebBehaviours : b.sigi = "none" /\ b.next = "none"}

\* A strategy is told that the handle is not live: the DownloadError says so
\* (line 587), or the page arrives, without the captcha words, with the
\* not-hosting sentence (line 686).
ToldOffline(yt, web) ==
    \/ yt.kind = "raises" /\ yt.exc = "DownloadError" /\ "offline" \in yt.msg
    \/ web.exc = "None" /\ ~web.captcha /\ web.nothosting

\* lines 496-509: get_live_info is called again for the same handle, which is
\* still not live
LiveCallAgain ==
    /\ lpc = "returned" /\ ~earlier.called /\ uname # <<>>
    /\ yt_in \in OfflineYt /\ web_in \in OfflineWeb
    /\ earlier' = [called |-> TRUE, result |-> result, told |-> ToldOffline(yt_in, web_in)]
    /\ result' = BlankResult(uname)
    /\ lpc' = "ytdlp"
    /\ yt_in' \in OfflineYt /\ web_in' \in OfflineWeb
    /\ yt_result' = BlankResult(uname) /\ web_result' = BlankResult(uname)
    /\ tried' = {}
    /\ UNCHANGED <<coreVars, finVars, endVars, extVars, uname>>

\* No call is looked at.
LiveIdle ==
    /\ earlier = NoCall
    /\ lpc = "idle" /\ uname = <<>>
    /\ yt_in = NoBehaviour /\ web_in = NoBehaviour
    /\ yt_result = BlankResult(<<>>) /\ web_result = BlankResult(<<>>)
    /\ tried = {} /\ result = BlankResult(<<>>)

\* ------------------------------------------ TikTokApp._monitor_loop
\* Handles on the watchlist (self.watchlist.get_all()), by position.
MaxWatch == 3
\* Passes of the while loop that are followed.
MaxCycles == 2
Watched == 1..MaxWatch

NotYet == [i \in Watched |-> "-"]

\* Mutant of Swallowed: the body of the for loop has no try statement.
Swallowed_NoTry == FALSE

\* lines 2755, 2768-2769: try: ... except: pass around the body
Swallowed == TRUE

\* Where an exception raised in the body leads: on to time.sleep(3), or out
\* of the thread's function.
AfterRaise == IF Swallowed THEN "sleep" ELSE "dead"

\* line 2750: while self.monitoring; line 2751: the list is read
WatchCycle ==
    /\ wpc = "while"
    /\ IF monitoring
         THEN /\ cycle < MaxCycles
              /\ cycle' = cycle + 1
              /\ wpc' = "for" /\ widx' = 1
              /\ info' = NotYet /\ rec' = NotYet /\ began' = NotYet
         ELSE /\ wpc' = "ended"
              /\ UNCHANGED <<cycle, widx, info, rec, began>>
    /\ UNCHANGED <<coreVars, finVars, endVars, liveVars, nameVars, moreVars, monitoring, status>>

\* lines 2751-2753: the next handle, unless the list is through or
\* monitoring was switched off
WatchNext ==
    /\ wpc = "for"
    /\ wpc' = IF widx > MaxWatch \/ ~monitoring THEN "interval" ELSE "resolve"
    /\ UNCHANGED <<coreVars, finVars, endVars, liveVars, nameVars, moreVars, monitoring, widx, cycle, info,
                   rec, began, status>>

\* Mutant of Recorded: the result is not stored.
Recorded_Dropped(st, i, res) == st

\* line 2757: self.user_status[u] = info
Recorded(st, i, res) == [st EXCEPT ![i] = res]

\* lines 2756-2757: info = self.api.get_live_info(u, ...), which returns a
\* live or a not-live result, or raises
WatchResolve ==
    /\ wpc = "resolve"
    /\ \E did \in {"raised", "offline", "live"} :
         /\ info' = [info EXCEPT ![widx] = did]
         /\ status' = IF did = "raised" THEN status ELSE Recorded(status, widx, did)
         /\ wpc' = CASE did = "raised" -> AfterRaise
                     [] did = "offline" -> "put"
                     [] OTHER -> "check"
    /\ UNCHANGED <<coreVars, finVars, endVars, liveVars, nameVars, moreVars, monitoring, widx, cycle, rec,
                   began>>

\* line 2759: not self.multi.is_recording(u)
WatchCheck ==
    /\ wpc = "check"
    /\ \E did \in {"raised", "yes", "no"} :
         /\ rec' = [rec EXCEPT ![widx] = did]
         /\ wpc' = CASE did = "raised" -> AfterRaise
                     [] did = "yes" -> "put"
                     [] OTHER -> "start"
    /\ UNCHANGED <<coreVars, finVars, endVars, liveVars, nameVars, moreVars, monitoring, widx, cycle, info,
                   began, status>>

\* lines 2760-2764: self.multi.start(u, ...), and the notification when it
\* returned True
WatchStart ==
    /\ wpc = "start"
    /\ \E did \in {"raised", "True", "False"} :
         /\ began' = [began EXCEPT ![widx] = did]
         /\ wpc' = IF did = "raised" THEN AfterRaise ELSE "put"
    /\ UNCHANGED <<coreVars, finVars, endVars, liveVars, nameVars, moreVars, monitoring, widx, cycle, info,
                   rec, status>>

\* line 2766: self.queue.put(("monitor_update",))
WatchPut ==
    /\ wpc = "put"
    /\ wpc' = "sleep"
    /\ UNCHANGED <<coreVars, finVars, endVars, liveVars, nameVars, moreVars, monitoring, widx, cycle, info,
                   rec, began, status>>

\* line 2771: time.sleep(3), then the for loop goes on
WatchSleep ==
    /\ wpc = "sleep"
    /\ widx' = widx + 1
    /\ wpc' = "for"
    /\ UNCHANGED <<coreVars, finVars, endVars, liveVars, nameVars, moreVars, monitoring, cycle, info, rec,
                   began, status>>

\* lines 2773-2776: the pause between two passes
WatchInterval ==
    /\ wpc = "interval"
    /\ wpc' = "while"
    /\ UNCHANGED <<coreVars, finVars, endVars, liveVars, nameVars, moreVars, monitoring, widx, cycle, info,
                   rec, began, status>>

\* lines 2745-2746: _stop_monitor, on the GUI thread
WatchStop ==
    /\ monitoring /\ wpc \notin {"ended", "dead"}
    /\ monitoring' = FALSE
    /\ UNCHANGED <<coreVars, finVars, endVars, liveVars, nameVars, moreVars, wpc, widx, cycle, info, rec,
                   began, status>>

\* The loop is not looked at.
WatchIdle ==
    /\ monitoring = FALSE /\ wpc = "idle" /\ widx = 0 /\ cycle = 0
    /\ info = NotYet /\ rec = NotYet /\ began = NotYet /\ status = NotYet

\* ------------------------------------------ Recorder._generate_filename
\* line 824: if counter > 999
CounterLimit == 999
\* Sessions that are named in one behaviour.
MaxNamed == 3
\* The last second of the clock.
MaxSec == 1
Named == 1..MaxNamed
HandleOf(s) == IF s % 2 = 1 THEN "alice" ELSE "bob"
Titles == {"", "show"}
Clocks == [sec : 0..MaxSec, ms : {7, 8}]

\* config.filename_pattern values: the default (line 173) and patterns without
\* the time of day, without the handle, and with the title only
Patterns ==
    {<<"{username}", "_", "{datetime}">>, <<"{username}", "_", "{date}">>,
     <<"{date}", "_", "{time}">>, <<"{title}">>}

\* line 795: the title without forbidden characters, or "live" (the titles
\* drawn hold no forbidden character)
SafeTitle(title) == IF title = "" THEN "live" ELSE title

\* now.strftime("%H%M%S") for the seconds of the clock
TimeText(sec) == IF sec = 0 THEN "120000" ELSE IF sec = 1 THEN "120001" ELSE "120002"

\* lines 798-802: what a token of the pattern is replaced by
Replaced(token, handle, at, title) ==
    CASE token = "{username}" -> <<handle>>
      [] token = "{date}" -> <<"20260101">>
      [] token = "{time}" -> <<TimeText(at.sec)>>
      [] token = "{datetime}" -> <<"20260101", "_", TimeText(at.sec)>>
      [] token = "{title}" -> <<SafeTitle(title)>>
      [] OTHER -> <<token>>

RECURSIVE Filled(_, _, _, _)
\* lines 797-802: the pattern with its placeholders replaced
Filled(pattern, handle, at, title) ==
    IF pattern = <<>> THEN <<>>
    ELSE Replaced(Head(pattern), handle, at, title)
           \o Filled(Tail(pattern), handle, at, title)

\* lines 797-809: the name before any counter: the filled pattern and the
\* millisecond
Filename(pattern, handle, at, title) ==
    [parts |-> Filled(pattern, handle, at, title), ms |-> at.ms]

\* A path in the output directory: the name, the counter behind it (0: none,
\* -1: the time stamp of line 825) and the extension.
Path(name, counter, ext) == [name |-> name, counter |-> counter, ext |-> ext]
NoPath == Path([parts |-> <<>>, ms |-> 0], 0, "")

\* lines 814, 821: os.path.exists(path)
Probed(d, p) == p \in d

\* lines 811-826: the base path if it does not exist, else the path with the
\* lowest counter that does not exist, else (line 825) the time-stamped path
GenerateFilename(d, name) ==
    LET free == {c \in 1..CounterLimit : ~Probed(d, Path(name, c, ".mp4"))}
    IN IF ~Probed(d, Path(name, 0, ".mp4")) THEN Path(name, 0, ".mp4")
       ELSE IF free # {}
         THEN Path(name, CHOOSE c \in free : \A x \in free : c <= x, ".mp4")
       ELSE Path(name, -1, ".mp4")

\* lines 869-870, 922-923: os.path.splitext(self.output_file)[0] + ".flv"
RawOf(p) == [p EXCEPT !.ext = ".flv"]

NameActive(s) == npc[s] \in {"named", "spawned"}

\* lines 832-844: start() takes the handle and the title and generates
\* output_file. (The guard is the registry's: no second active session of the
\* handle.)
NameStart(s) ==
    /\ npc[s] = "idle"
    /\ \A x \in Named \ {s} : HandleOf(x) = HandleOf(s) => ~NameActive(x)
    /\ \E title \in Titles :
         nout' = [nout EXCEPT ![s] =
                    GenerateFilename(dir, Filename(filename_pattern, HandleOf(s), tnow,
                                                   title))]
    /\ nraw' = [nraw EXCEPT ![s] = RawOf(nout'[s])]
    /\ nsec' = [nsec EXCEPT ![s] = tnow.sec]
    /\ npc' = [npc EXCEPT ![s] = "named"]
    /\ UNCHANGED <<coreVars, finVars, endVars, liveVars, watchVars, moreVars, filename_pattern, dir,
                   tnow, clobbered, overwrote, made, existed, gens>>

\* lines 872-892, 925-946: the capture tool is spawned with the raw path as its
\* output (ffmpeg with -y) and opens it
NameSpawn(s) ==
    /\ npc[s] = "named"
    /\ clobbered' = [clobbered EXCEPT ![s] = nraw[s] \in dir]
    /\ dir' = dir \cup {nraw[s]}
    /\ npc' = [npc EXCEPT ![s] = "spawned"]
    /\ UNCHANGED <<coreVars, finVars, endVars, liveVars, watchVars, moreVars, filename_pattern,
                   tnow, nout, nraw, nsec, overwrote, made, existed, gens>>

\* lines 1110-1143, 1199-1200: the session ends, at the earliest in the second
\* after its start (line 894: time.sleep(1.5)); the conversion writes the .mp4
\* path (ffmpeg -y) and removes the raw file, or fails and keeps the raw file
NameEnd(s) ==
    /\ npc[s] = "spawned" /\ tnow.sec > nsec[s]
    /\ \E converted \in BOOLEAN :
         IF converted
           THEN /\ overwrote' = [overwrote EXCEPT ![s] = nout[s] \in dir]
                /\ dir' = (dir \ {nraw[s]}) \cup {nout[s]}
           ELSE UNCHANGED <<overwrote, dir>>
    /\ npc' = [npc EXCEPT ![s] = "done"]
    /\ UNCHANGED <<coreVars, finVars, endVars, liveVars, watchVars, moreVars, filename_pattern,
                   tnow, nout, nraw, nsec, clobbered, made, existed, gens>>

\* Time passes: the next millisecond value, or the next second.
NameTick ==
    /\ \E later \in Clocks :
         /\ later.sec > tnow.sec \/ (later.sec = tnow.sec /\ later.ms > tnow.ms)
         /\ tnow' = later
    /\ UNCHANGED <<coreVars, finVars, endVars, liveVars, watchVars, moreVars, filename_pattern, dir,
                   npc, nout, nraw, nsec, clobbered, overwrote, made, existed, gens>>

\* Calls of _generate_filename at one clock value that are followed.
MaxGens == 3

\* lines 791-826: _generate_filename is called with the same pattern, handle,
\* title and clock value as before, and its result is created as a file
GenCall ==
    /\ gens < MaxGens
    /\ made' = GenerateFilename(dir, Filename(filename_pattern, "alice", tnow, ""))
    /\ existed' = (made' \in dir)
    /\ dir' = dir \cup {made'}
    /\ gens' = gens + 1
    /\ UNCHANGED <<coreVars, finVars, endVars, liveVars, watchVars, moreVars, filename_pattern,
                   tnow, npc, nout, nraw, nsec, clobbered, overwrote>>

\* An empty output directory, no session.
NameSessionsIdle ==
    /\ npc = [s \in Named |-> "idle"]
    /\ nout = [s \in Named |-> NoPath] /\ nraw = [s \in Named |-> NoPath]
    /\ nsec = [s \in Named |-> 0]
    /\ clobbered = [s \in Named |-> FALSE] /\ overwrote = [s \in Named |-> FALSE]
    /\ made = NoPath /\ existed = FALSE /\ gens = 0

\* No file name is looked at.
NameIdle ==
    /\ filename_pattern = <<>> /\ dir = {} /\ tnow = [sec |-> 0, ms |-> 7]
    /\ NameSessionsIdle

\* ------------------------------------------------------ handles as keys
\* Entries of watchlist.json that are followed, and keys of the registry.
MaxListed == 2
MaxKeys == 2

\* The elements of a list.
Elements(list) == {list[i] : i \in 1..Len(list)}

\* lines 1421-1427: Watchlist.load takes the "users" list of watchlist.json as
\* it is
Loadable == UNION {[1..n -> Names] : n \in 0..MaxListed}

\* lines 1438-1444: Watchlist.add
WatchlistAdd(u) ==
    /\ NormalizeUsername(u) # <<>> /\ NormalizeUsername(u) \notin Elements(users)
    /\ Len(users) < MaxListed
    /\ users' = Append(users, NormalizeUsername(u))
    /\ UNCHANGED <<coreVars, finVars, endVars, liveVars, watchVars, nameVars, keys,
                   recording, statVars, lateVars>>

\* list.remove(x): the list without the first element equal to x
RemoveFirst(list, x) ==
    LET i == CHOOSE k \in 1..Len(list) : list[k] = x /\ \A j \in 1..(k - 1) : list[j] # x
    IN SubSeq(list, 1, i - 1) \o SubSeq(list, i + 1, Len(list))

\* lines 1446-1452: Watchlist.remove
WatchlistRemove(u) ==
    /\ NormalizeUsername(u) \in Elements(users)
    /\ users' = RemoveFirst(users, NormalizeUsername(u))
    /\ UNCHANGED <<coreVars, finVars, endVars, liveVars, watchVars, nameVars, keys,
                   recording, statVars, lateVars>>

\* lines 1364-1366: MultiRecorder.is_recording(username)
KeyIsRecording(u) == u \in keys /\ u \in recording

\* lines 1354-1362: MultiRecorder.start(username, ...): the handle is looked up
\* and stored as it was given; Recorder.start succeeds or fails
MultiStart(u) ==
    /\ Cardinality(keys \cup {u}) <= MaxKeys
    /\ IF u \in keys /\ u \in recording
         THEN UNCHANGED <<keys, recording>>
         ELSE \E ok \in BOOLEAN :
                IF ok THEN keys' = keys \cup {u} /\ recording' = recording \cup {u}
                      ELSE UNCHANGED <<keys, recording>>
    /\ UNCHANGED <<coreVars, finVars, endVars, liveVars, watchVars, nameVars, users,
                   statVars, lateVars>>

\* lines 2755-2761: the monitor loop resolves an entry of the watchlist
\* (get_live_info normalizes it, line 497, and refuses an empty handle), finds
\* it live, asks is_recording(u) and calls start(u) with the entry as it is
KeyMonitor(i) ==
    /\ i \in 1..Len(users) /\ NormalizeUsername(users[i]) # <<>>
    /\ ~KeyIsRecording(users[i])
    /\ MultiStart(users[i])

\* lines 1354-1362: MultiRecorder.start is called with a handle as typed
KeyStart(u) == ~KeyIsRecording(u) /\ MultiStart(u)

\* lines 977-1007: the capture of a session ends; the key stays
KeyEnd(k) ==
    /\ k \in recording
    /\ recording' = recording \ {k}
    /\ UNCHANGED <<coreVars, finVars, endVars, liveVars, watchVars, nameVars, users,
                   keys, statVars, lateVars>>

\* No watchlist entry, no registry key.
KeyIdle == users = <<>> /\ keys = {} /\ recording = {}

\* ------------------------------------------------------ shared statistics
\* Sessions that finalize while sharing one AppConfig (line 1358).
MaxFinalizers == 2
Finalizers == 1..MaxFinalizers

\* os.path.getsize(output_file) of a finished session, -1: the file does not
\* exist
FinalSizes == {-1, MinCountedSize, MinCountedSize + 1, 20000}

\* line 1237: int(time.time() - self._first_write_time), in seconds
Elapsed == 1

\* lines 1230-1233: the final file exists and holds more than 10 KiB
Counted(s) == ssize[s] # -1 /\ ssize[s] > MinCountedSize

\* lines 1230-1233: the test before the totals are touched
StatCheck(s) ==
    /\ spc[s] = "check"
    /\ spc' = [spc EXCEPT ![s] = IF Counted(s) THEN "count" ELSE "done"]
    /\ UNCHANGED <<coreVars, finVars, endVars, liveVars, watchVars, nameVars, keyVars, lateVars,
                   sreg, ssize>>

\* line 1234, 1235: the left side of += is read (the statement is a load, an
\* addition and a store, and another thread may run in between)
StatLoad(s) ==
    /\ spc[s] \in {"count", "bytes"}
    /\ sreg' = [sreg EXCEPT ![s] = IF spc[s] = "count" THEN config.total_recordings
                                                       ELSE config.total_size_bytes]
    /\ spc' = [spc EXCEPT ![s] = IF spc[s] = "count" THEN "count_store"
                                                     ELSE "bytes_store"]
    /\ UNCHANGED <<coreVars, finVars, endVars, liveVars, watchVars, nameVars, keyVars, lateVars,
                   ssize>>

\* line 1234: self.config.total_recordings += 1, the store
StatStoreCount(s) ==
    /\ spc[s] = "count_store"
    /\ config' = [config EXCEPT !.total_recordings = sreg[s] + 1]
    /\ spc' = [spc EXCEPT ![s] = "bytes"]
    /\ UNCHANGED <<coreVars, finVars, now, first_write_time, on_complete, noticed,
                   completed, asked, liveVars, watchVars, nameVars, keyVars, lateVars, sreg, ssize>>

\* line 1235: self.config.total_size_bytes += actual_size, the store
StatStoreBytes(s) ==
    /\ spc[s] = "bytes_store"
    /\ config' = [config EXCEPT !.total_size_bytes = sreg[s] + ssize[s]]
    /\ spc' = [spc EXCEPT ![s] = "seconds"]
    /\ UNCHANGED <<coreVars, finVars, now, first_write_time, on_complete, noticed,
                   completed, asked, liveVars, watchVars, nameVars, keyVars, lateVars, sreg, ssize>>

\* lines 1236-1238: the seconds are added (taken here as one step) and the
\* configuration is saved
StatSeconds(s) ==
    /\ spc[s] = "seconds"
    /\ config' = [config EXCEPT !.total_duration_seconds = @ + Elapsed]
    /\ spc' = [spc EXCEPT ![s] = "done"]
    /\ UNCHANGED <<coreVars, finVars, now, first_write_time, on_complete, noticed,
                   completed, asked, liveVars, watchVars, nameVars, keyVars, lateVars, sreg, ssize>>

\* No session is finalizing.
StatIdle ==
    /\ spc = [s \in Finalizers |-> "done"]
    /\ sreg = [s \in Finalizers |-> 0]
    /\ ssize = [s \in Finalizers |-> -1]

\* ------------------------------------------------ monitor loop threads
\* Threads that run _monitor_loop in one behaviour, and the one-second sleeps
\* of config.check_interval that are followed.
MaxLoops == 2
MaxInterval == 2
Loops == 1..MaxLoops

LoopRunning(l) == lps[l] \notin {"none", "ended"}

\* Mutant of Cancelled: the loop does not look at the flag.
Cancelled_Blind == FALSE

\* lines 2750, 2752, 2774: not self.monitoring
Cancelled == ~monitoring

\* lines 2734-2742: _start_monitor (through _toggle_monitor, lines 2728-2732,
\* when monitoring is off; the watchlist is not empty): the flag is set and a
\* thread is started
LoopStart ==
    /\ ~monitoring
    /\ \E l \in Loops :
         /\ ~LoopRunning(l)
         /\ \A x \in Loops : ~LoopRunning(x) => l <= x
         /\ lps' = [lps EXCEPT ![l] = "while"]
         /\ lidx' = [lidx EXCEPT ![l] = 0]
         /\ lnap' = [lnap EXCEPT ![l] = 0]
    /\ monitoring' = TRUE
    /\ UNCHANGED <<coreVars, finVars, endVars, liveVars, nameVars, keyVars, statVars, killVars, capVars, selVars,
                   wpc, widx, cycle, info, rec, began, status>>

\* lines 2744-2747: _stop_monitor (through _toggle_monitor when monitoring is
\* on): the flag is cleared
LoopStop ==
    /\ monitoring
    /\ monitoring' = FALSE
    /\ UNCHANGED <<coreVars, finVars, endVars, liveVars, nameVars, keyVars, statVars, killVars, capVars, selVars,
                   loopVars, wpc, widx, cycle, info, rec, began, status>>

\* line 2750: while self.monitoring; line 2751: the for loop starts
LoopWhile(l) ==
    /\ lps[l] = "while"
    /\ IF Cancelled
         THEN lps' = [lps EXCEPT ![l] = "ended"] /\ UNCHANGED lidx
         ELSE lps' = [lps EXCEPT ![l] = "for"] /\ lidx' = [lidx EXCEPT ![l] = 1]
    /\ UNCHANGED <<coreVars, finVars, endVars, liveVars, watchVars, nameVars, keyVars,
                   statVars, killVars, capVars, selVars, lnap>>

\* lines 2751-2753, 2773: the next handle is taken up, unless the list is
\* through or the flag is found cleared; then the pause starts
LoopFor(l) ==
    /\ lps[l] = "for"
    /\ IF lidx[l] > MaxWatch \/ Cancelled
         THEN /\ lps' = [lps EXCEPT ![l] = "nap"]
              /\ lnap' = [lnap EXCEPT ![l] = MaxInterval]
         ELSE /\ lps' = [lps EXCEPT ![l] = "body"]
              /\ UNCHANGED lnap
    /\ UNCHANGED <<coreVars, finVars, endVars, liveVars, watchVars, nameVars, keyVars,
                   statVars, killVars, capVars, selVars, lidx>>

\* lines 2755-2771: the handle is resolved and perhaps started, whatever is
\* raised is dropped, time.sleep(3)
LoopBody(l) ==
    /\ lps[l] = "body"
    /\ lps' = [lps EXCEPT ![l] = "for"]
    /\ lidx' = [lidx EXCEPT ![l] = @ + 1]
    /\ UNCHANGED <<coreVars, finVars, endVars, liveVars, watchVars, nameVars, keyVars,
                   statVars, killVars, capVars, selVars, lnap>>

\* lines 2773-2776: one turn of the pause: the flag is looked at, then
\* time.sleep(1)
LoopNap(l) ==
    /\ lps[l] = "nap"
    /\ IF lnap[l] = 0 \/ Cancelled
         THEN lps' = [lps EXCEPT ![l] = "while"] /\ UNCHANGED lnap
         ELSE lnap' = [lnap EXCEPT ![l] = @ - 1] /\ UNCHANGED lps
    /\ UNCHANGED <<coreVars, finVars, endVars, liveVars, watchVars, nameVars, keyVars,
                   statVars, killVars, capVars, selVars, lidx>>

LoopStep(l) == LoopWhile(l) \/ LoopFor(l) \/ LoopBody(l) \/ LoopNap(l)

\* No loop thread was started.
LoopIdle ==
    /\ lps = [l \in Loops |-> "none"]
    /\ lidx = [l \in Loops |-> 0]
    /\ lnap = [l \in Loops |-> 0]

\* ------------------------------------------------ Recorder.stop, in detail
Force == {"SIGKILL", "taskkill", "kill"}
Graceful == {"q", "SIGINT"}
\* lines 1271, 1286: timeout=5
GraceSeconds == 5

\* Mutant of TimedOut: the wait ends in TimeoutExpired whatever the process did.
TimedOut_Always(p) == TRUE

\* lines 1271-1272, 1286-1287: self.process.wait(timeout=5) raises
\* TimeoutExpired when the process has not exited
TimedOut(p) == p = "alive"

\* The capture process exits, by itself or because it was asked or made to.
KillProcExit ==
    /\ kpc \notin {"idle", "done"} /\ kproc = "alive"
    /\ kproc' = "exited"
    /\ UNCHANGED <<coreVars, finVars, endVars, liveVars, watchVars, nameVars, keyVars,
                   statVars, loopVars, capVars, selVars, kwaited, kpc, platform, sent>>

\* line 1003: self.process.poll() in the monitor thread collects the exit
\* status
KillMonPoll ==
    /\ kpc \notin {"idle", "done"} /\ kproc = "exited"
    /\ kproc' = "reaped"
    /\ UNCHANGED <<coreVars, finVars, endVars, liveVars, watchVars, nameVars, keyVars,
                   statVars, loopVars, capVars, selVars, kwaited, kpc, platform, sent>>

\* line 1256: if self.process
KillGuard ==
    /\ kpc = "guard"
    /\ kpc' = IF kproc = "none" THEN "done" ELSE "ask"
    /\ UNCHANGED <<coreVars, finVars, endVars, liveVars, watchVars, nameVars, keyVars,
                   statVars, loopVars, capVars, selVars, kwaited, platform, kproc, sent>>

\* lines 1260-1268 / 1281-1284: the graceful request. win32: b'q' is written
\* to stdin (a pipe, lines 886, 938) and flushed; what is raised is dropped.
\* unix: os.killpg(os.getpgid(pid), SIGINT); os.getpgid raises when the exit
\* status was collected already; what is raised leads to the handler at 1289.
KillAsk ==
    /\ kpc = "ask"
    /\ \E raised \in BOOLEAN :
         /\ (platform = "unix" /\ kproc = "reaped") => raised
         /\ sent' = Append(sent, IF raised THEN "undelivered"
                                 ELSE IF platform = "win32" THEN "q" ELSE "SIGINT")
         /\ kpc' = IF raised /\ platform = "unix" THEN "kill" ELSE "wait"
    /\ UNCHANGED <<coreVars, finVars, endVars, liveVars, watchVars, nameVars, keyVars,
                   statVars, loopVars, capVars, selVars, kwaited, platform, kproc>>

\* lines 1270-1272 / 1285-1287: self.process.wait(timeout=5), second by
\* second: it returns, the exit status collected, once the process has exited,
\* or raises TimeoutExpired after the last second
KillWait ==
    /\ kpc = "wait"
    /\ IF kproc = "alive" /\ kwaited < GraceSeconds
         THEN kwaited' = kwaited + 1 /\ UNCHANGED <<kpc, kproc, sent>>
         ELSE /\ sent' = Append(sent, IF kproc = "alive" THEN "timeout" ELSE "exit")
              /\ IF TimedOut(kproc)
                   THEN kpc' = "force" /\ UNCHANGED kproc
                   ELSE kpc' = "done" /\ kproc' = "reaped"
              /\ UNCHANGED kwaited
    /\ UNCHANGED <<coreVars, finVars, endVars, liveVars, watchVars, nameVars, keyVars,
                   statVars, loopVars, capVars, selVars, platform>>

\* lines 1273-1279 / 1287: taskkill /F /T (subprocess.run, which can time out),
\* or SIGKILL to the process group. os.getpgid raises when the exit status was
\* collected meanwhile; what is raised here leads to the handler at 1296.
KillForce ==
    /\ kpc = "force"
    /\ IF platform = "unix"
         THEN IF kproc = "reaped"
                THEN kpc' = "kill" /\ UNCHANGED <<sent, kproc>>
                ELSE kpc' = "wait3" /\ sent' = Append(sent, "SIGKILL") /\ UNCHANGED kproc
         ELSE /\ sent' = Append(sent, "taskkill")
              /\ \E gone \in BOOLEAN, raised \in BOOLEAN :
                   /\ kproc' = IF kproc = "alive" /\ gone THEN "exited" ELSE kproc
                   /\ kpc' = IF raised THEN "kill" ELSE "done"
    /\ UNCHANGED <<coreVars, finVars, endVars, liveVars, watchVars, nameVars, keyVars,
                   statVars, loopVars, capVars, selVars, kwaited, platform>>

\* line 1288: self.process.wait(timeout=3) after SIGKILL; TimeoutExpired leads
\* to the handler at 1296
KillWait3 ==
    /\ kpc = "wait3"
    /\ IF kproc = "alive"
         THEN kpc' = "kill" /\ UNCHANGED kproc
         ELSE kpc' = "done" /\ kproc' = "reaped"
    /\ UNCHANGED <<coreVars, finVars, endVars, liveVars, watchVars, nameVars, keyVars,
                   statVars, loopVars, capVars, selVars, kwaited, platform, sent>>

\* lines 1291, 1298: self.process.kill(), which signals only a process whose
\* exit status was not collected
KillFallback ==
    /\ kpc = "kill"
    /\ sent' = IF kproc = "reaped" THEN sent ELSE Append(sent, "kill")
    /\ kpc' = "wait3b"
    /\ UNCHANGED <<coreVars, finVars, endVars, liveVars, watchVars, nameVars, keyVars,
                   statVars, loopVars, capVars, selVars, kwaited, platform, kproc>>

\* lines 1292-1294, 1299-1301: self.process.wait(timeout=3); what is raised is
\* dropped
KillWait3b ==
    /\ kpc = "wait3b"
    /\ kproc' = IF kproc = "alive" THEN "alive" ELSE "reaped"
    /\ kpc' = "done"
    /\ UNCHANGED <<coreVars, finVars, endVars, liveVars, watchVars, nameVars, keyVars,
                   statVars, loopVars, capVars, selVars, kwaited, platform, sent>>

\* No stop() is looked at.
KillIdle ==
    kpc = "idle" /\ platform = "unix" /\ kproc = "alive" /\ sent = <<>> /\ kwaited = 0

\* ------------------------------------------------ Recorder.start, its tools
\* The live_url argument: the page of the handle.
PageUrl == "page"

\* lines 791-826: names _generate_filename returns in successive calls
Generated == {File(Base, ".mp4"), File(Base \o <<"_1">>, ".mp4")}

\* lines 853, 936: _start_ytdlp(live_url); cmd.append(live_url)
YtdlpTarget(stream, page) == page

\* lines 869-870, 922-923: os.path.splitext(self.output_file)[0] + ".flv"
RawPath(out) == File(out.stem, ".flv")

CapFrame ==
    UNCHANGED <<coreVars, endVars, liveVars, watchVars, nameVars, keyVars, statVars,
                loopVars, killVars, selVars, fs, actual_recording_file, finLocals, finHist,
                stream_url>>

\* lines 832-848, 860-892: the fields are reset, output_file is generated;
\* with a stream URL, _start_ffmpeg: the tool is looked for, the raw path is
\* derived and ffmpeg is spawned on the stream URL; without a stream URL, or
\* when the tool is missing or Popen raises, the fallback is next
CapDirect ==
    /\ cpc = "start"
    /\ \E out \in Generated, ffmpeg \in {"missing", "error", "spawned"} :
         /\ out.stem # output_file.stem
         /\ output_file' = out
         /\ IF stream_url # "" /\ ffmpeg # "missing"
              THEN raw_recording_file' = RawPath(out)
              ELSE raw_recording_file' = NoFile
         /\ IF stream_url # "" /\ ffmpeg = "spawned"
              THEN /\ launched' = Append(launched, [tool |-> "ffmpeg", url |-> stream_url,
                                                    out |-> RawPath(out), found |-> "-"])
                   /\ cpc' = "ff_poll"
              ELSE /\ launched' = launched
                   /\ cpc' = "fallback"
    /\ cret' = cret /\ cold' = cold
    /\ CapFrame

\* lines 894-913: time.sleep(1.5) and the poll of the ffmpeg process
CapFfPoll ==
    /\ cpc = "ff_poll"
    /\ \E found \in {"alive", "exited"} :
         /\ launched' = [launched EXCEPT ![Len(launched)].found = found]
         /\ IF found = "alive"
              THEN cpc' = "done" /\ cret' = "True"
              ELSE cpc' = "fallback" /\ cret' = cret
    /\ UNCHANGED <<output_file, raw_recording_file, cold>>
    /\ CapFrame

\* lines 852-853, 919-946: _start_ytdlp(live_url): the raw path is derived and
\* yt-dlp is spawned, or Popen raises and start() returns False
CapFallback ==
    /\ cpc = "fallback"
    /\ raw_recording_file' = RawPath(output_file)
    /\ \E ytdlp \in {"error", "spawned"} :
         IF ytdlp = "spawned"
           THEN /\ launched' = Append(launched,
                                      [tool |-> "yt-dlp",
                                       url |-> YtdlpTarget(stream_url, PageUrl),
                                       out |-> RawPath(output_file), found |-> "-"])
                /\ cpc' = "yt_poll" /\ cret' = cret
           ELSE /\ launched' = launched
                /\ cpc' = "done" /\ cret' = "False"
    /\ UNCHANGED <<output_file, cold>>
    /\ CapFrame

\* lines 948-967, 854-858: time.sleep(2) and the poll of the yt-dlp process
CapYtPoll ==
    /\ cpc = "yt_poll"
    /\ \E found \in {"alive", "exited"} :
         /\ launched' = [launched EXCEPT ![Len(launched)].found = found]
         /\ cret' = IF found = "alive" THEN "True" ELSE "False"
    /\ cpc' = "done"
    /\ UNCHANGED <<output_file, raw_recording_file, cold>>
    /\ CapFrame

\* lines 1050-1058, 1107, 1142, 1169, 1196, 1200: the monitor thread of the
\* session before, which cleared is_recording at line 1050 and went on to
\* convert, assigns self.output_file a path of its own session
CapOld ==
    /\ cold # NoFile
    /\ output_file' = cold
    /\ cold' = NoFile
    /\ UNCHANGED <<cpc, launched, cret, raw_recording_file>>
    /\ CapFrame

\* lines 2111, 829: start() is called again on the same Recorder
\* (self.recorder of the application) once is_recording is False: the start
\* had failed, or the session it began has ended; that session's monitor
\* thread has finished _complete or is still inside it, about to assign
\* output_file the raw file it found or the converted file.
CapAgain ==
    /\ cpc = "done"
    /\ cpc' = "start" /\ launched' = <<>> /\ cret' = "-"
    /\ stream_url' \in {"", "stream"}
    /\ IF cret = "True"
         THEN cold' \in {NoFile, launched[Len(launched)].out,
                         File(launched[Len(launched)].out.stem, ".mp4")}
         ELSE cold' = cold
    /\ UNCHANGED <<coreVars, endVars, liveVars, watchVars, nameVars, keyVars, statVars,
                   loopVars, killVars, selVars, finVars>>

\* No start() is looked at here.
CapIdle ==
    /\ cpc = "idle" /\ stream_url = "" /\ launched = <<>> /\ cret = "-"
    /\ cold = NoFile

\* ------------------------------------------------ stream URL selection
\* the most candidates one selection is given
MaxCands == 2

\* Keys of candidates: format ids of yt-dlp, quality keys of the room data.
CandKeys ==
    {<<"o", "r", "i", "g", "i", "n">>, <<"u", "h", "d">>, <<"h", "d">>, <<"H", "D">>,
     <<"s", "d">>, <<"l", "d">>, <<"a", "o">>}
\* URLs of candidates; "" stands for an empty or missing URL.
CandUrls == {"", "A", "B"}

\* The candidates in collection order; the keys of a dict are distinct.
Candidates ==
    {c \in UNION {[1..n -> [key : CandKeys, url : CandUrls]] : n \in 0..MaxCands} :
       \A i, j \in 1..Len(c) : c[i].key = c[j].key => i = j}

Qualities == {"best", "high", "medium", "low", "other"}

\* lines 477-482, 564, 739: self.QUALITY_MAP.get(quality, ['origin'])
Preferred(q) ==
    CASE q = "best" -> <<<<"o", "r", "i", "g", "i", "n">>, <<"u", "h", "d">>, <<"h", "d">>,
                         <<"s", "d">>>>
      [] q = "high" -> <<<<"h", "d">>, <<"s", "d">>>>
      [] q = "medium" -> <<<<"s", "d">>>>
      [] q = "low" -> <<<<"s", "d">>, <<"l", "d">>>>
      [] OTHER -> <<<<"o", "r", "i", "g", "i", "n">>>>

\* a in b, for strings
IsSubstring(a, b) ==
    \E i \in 0..(Len(b) - Len(a)) : SubSeq(b, i + 1, i + Len(a)) = a

\* lines 569, 742: pref.lower() in key.lower() and url
Matches(pref, cand) ==
    IsSubstring(LowerStr(pref), LowerStr(cand.key)) /\ cand.url # ""

Least(S) == CHOOSE x \in S : \A y \in S : x <= y

\* lines 567-573, 740-743: the loops over the preferences and, inside, over the
\* candidates; the URL of the first match, or None
FirstMatch(cs, prefs) ==
    LET good == {i \in 1..Len(prefs) : \E j \in 1..Len(cs) : Matches(prefs[i], cs[j])}
    IN IF good = {} THEN "None"
       ELSE LET pref == prefs[Least(good)]
            IN cs[Least({j \in 1..Len(cs) : Matches(pref, cs[j])})].url

\* lines 735-746: _extract_stream_url once the candidates are collected
ExtractStreamUrl(urls, q) ==
    IF urls = <<>> THEN "None"
    ELSE IF FirstMatch(urls, Preferred(q)) # "None" THEN FirstMatch(urls, Preferred(q))
    ELSE urls[1].url

\* lines 563-583: the format selection of _try_ytdlp
BestFormatUrl(formats, q) ==
    LET withUrl == {j \in 1..Len(formats) : formats[j].url # ""}
    IN IF FirstMatch(formats, Preferred(q)) # "None"
         THEN FirstMatch(formats, Preferred(q))
       ELSE IF withUrl = {} THEN "None"
       ELSE formats[Least(withUrl)].url

SelFrame ==
    UNCHANGED <<coreVars, finVars, endVars, liveVars, watchVars, nameVars, keyVars,
                statVars, loopVars, killVars, capVars, quality, cands>>

\* lines 735-746: the page data's candidates are selected from
SelExtract ==
    /\ qpc = "call"
    /\ chosen' = ExtractStreamUrl(cands, quality)
    /\ qpc' = "scraped"
    /\ SelFrame

\* lines 563-583: the formats yt-dlp reported are selected from
SelFormat ==
    /\ qpc = "call"
    /\ chosen' = BestFormatUrl(cands, quality)
    /\ qpc' = "ytdlp"
    /\ SelFrame

\* No selection is looked at.
SelIdle == qpc = "idle" /\ quality = "best" /\ cands = <<>> /\ chosen = "None"

LateIdle == LoopIdle /\ KillIdle /\ CapIdle /\ SelIdle

MoreIdle == KeyIdle /\ StatIdle /\ LateIdle

ExtIdle == WatchIdle /\ NameIdle /\ MoreIdle
ExtIdleButCap ==
    WatchIdle /\ NameIdle /\ KeyIdle /\ StatIdle /\ LoopIdle /\ KillIdle /\ SelIdle

\* ------------------------------------------------------ specifications
\* No finalization is looked at.
FinIdle ==
    /\ now = 0 /\ first_write_time = 0 /\ on_complete = FALSE
    /\ config = [total_recordings |-> 0, total_size_bytes |-> 0,
                 total_duration_seconds |-> 0]
    /\ noticed = NoCall /\ completed = NoCall /\ asked = NoCall
    /\ fs = [p \in Paths |-> -1] /\ fs0 = fs
    /\ raw_recording_file = NoFile /\ actual_recording_file = NoFile
    /\ output_file = NoFile
    /\ fpc = "idle" /\ input_file = NoFile /\ file_size = 0
    /\ mp4_output = NoFile /\ original_flv = NoFile /\ step = 0 /\ returncode = 0
    /\ raw0 = NoFile /\ accepted = 0 /\ ran = {} /\ outcome = "-"

InitCommon ==
    /\ is_recording = [s \in Sessions |-> FALSE]
    /\ is_stopping = [s \in Sessions |-> FALSE]
    /\ stop_event = [s \in Sessions |-> FALSE]
    /\ process = [s \in Sessions |-> "None"]
    /\ orphans = [s \in Sessions |-> 0]
    /\ last_error = [s \in Sessions |-> "None"]
    /\ monitors = [s \in Sessions |-> NoMonitors]
    /\ stuck_count = [s \in Sessions |-> 0]
    /\ recorders = [h \in Handles |-> 0]
    /\ lock = "free"
    /\ pc = [t \in Threads |-> "idle"]
    /\ tses = [t \in Threads |-> 1]
    /\ tctx = [t \in Threads |-> "solo"]
    /\ targ = [t \in Threads |-> "alice"]
    /\ tret = [t \in Threads |-> "-"]
    /\ todo = [t \in Threads |-> {}]
    /\ started = [s \in Sessions |-> 0]
    /\ finalized = [s \in Sessions |-> 0]
    /\ admitted = {}
    /\ stopRuns = [s \in Sessions |-> 0]
    /\ notified = [s \in Sessions |-> 0]
    /\ duel = NoDuel

\* MultiRecorder.__init__ (lines 1348-1352): an empty registry
Init ==
    /\ InitCommon
    /\ ExtIdle
    /\ FinIdle
    /\ LiveIdle
    /\ username = [s \in Sessions |-> "-"]

\* TikTokApp.__init__ (line 1519): self.recorder = Recorder(...)
InitRecorder ==
    /\ InitCommon
    /\ ExtIdle
    /\ FinIdle
    /\ LiveIdle
    /\ username = [s \in Sessions |-> IF s = 1 THEN "" ELSE "-"]

RecorderStep(t) ==
    \/ RStartGuard(t) \/ RStartReset(t) \/ FfPoll(t) \/ YtSpawn(t) \/ YtPoll(t)
    \/ StopGuard(t) \/ StopSet(t) \/ StopWait(t) \/ StopMark(t) \/ StopComplete(t)

MonitorStep(s) ==
    \/ MonLoop(s) \/ MonCheck(s) \/ MonCompleteGuard(s) \/ MonCompleteSet(s)
    \/ MonComplete(s)

Next ==
    \/ \E t \in Threads : \E h \in Handles : MStartCall(t, h)
    \/ \E t \in Threads : MStartLock(t) \/ MStartFinish(t)
    \/ \E t \in Threads : StopAllCall(t) \/ StopAllLock(t) \/ StopAllLoop(t)
    \/ \E t \in Threads : RecorderStep(t)
    \/ \E s \in Sessions : MonitorStep(s) \/ ProcExit(s) \/ OrphanExit(s)

Spec == Init /\ [][Next]_vars

\* The registry used for one handle, with the scheduling the threads get: a
\* caller thread inside Recorder.start / Recorder.stop and a running monitor
\* thread keep being scheduled; every wait in them is bounded (time.sleep,
\* wait(timeout=...), subprocess.run(timeout=...)).
NextFair ==
    \/ \E t \in Threads : \E h \in SoloHandles : MStartCall(t, h)
    \/ \E t \in Threads : MStartLock(t) \/ MStartFinish(t)
    \/ \E t \in Threads : StopAllCall(t) \/ StopAllLock(t) \/ StopAllLoop(t)
    \/ \E t \in Threads : RecorderStep(t)
    \/ \E s \in Sessions : MonitorStep(s) \/ ProcExit(s) \/ OrphanExit(s)

SpecFair ==
    /\ Init /\ [][NextFair]_vars
    /\ \A t \in Threads : WF_vars(RecorderStep(t))
    /\ \A s \in Sessions : WF_vars(MonitorStep(s))

NextRecorder ==
    \/ \E t \in Threads : SoloStartCall(t) \/ SoloStopCall(t)
    \/ \E t \in Threads : RecorderStep(t)
    \/ \E s \in Sessions : MonitorStep(s) \/ ProcExit(s) \/ OrphanExit(s)

SpecRecorder == InitRecorder /\ [][NextRecorder]_vars

\* _complete (after line 1050) or _complete_after_stop is entered for a session
\* that start() accepted: output_file is the generated .mp4 path (line 844),
\* _raw_recording_file the .flv path next to it (lines 870, 923),
\* actual_recording_file that path (lines 905, 959) or what the monitor last
\* found (lines 984-986); the capture tool has left any of the files.
InitFinalize ==
    /\ InitCommon
    /\ ExtIdle
    /\ LiveIdle
    /\ username = [s \in Sessions |-> IF s = 1 THEN "alice" ELSE "-"]
    /\ \E size \in [FileExts -> RawSizes \cup {-1}] :
         fs = [p \in Paths |-> IF p.stem = Base THEN size[p.ext] ELSE -1]
    /\ fs0 = fs
    /\ raw_recording_file = File(Base, ".flv")
    /\ output_file = File(Base, ".mp4")
    /\ actual_recording_file \in
         {raw_recording_file} \cup
           (FindActualFile(fs, raw_recording_file, raw_recording_file, output_file)
              \ {NoFile})
    /\ fpc = "find" /\ input_file = NoFile /\ file_size = 0
    /\ mp4_output = NoFile /\ original_flv = NoFile /\ step = 0 /\ returncode = 0
    /\ raw0 = NoFile /\ accepted = 0 /\ ran = {} /\ outcome = "-"
    /\ first_write_time = 1 /\ now = 60
    /\ on_complete \in BOOLEAN
    /\ config = [total_recordings |-> 0, total_size_bytes |-> 0,
                 total_duration_seconds |-> 0]
    /\ noticed = NoCall /\ completed = NoCall /\ asked = NoCall

NextFinalize ==
    \/ FinFind \/ FinSelect \/ FinPrepare \/ FinRun \/ FinVerify \/ FinCleanup
    \/ FinFinalize \/ FinTick \/ FinQuery

SpecFinalize == InitFinalize /\ [][NextFinalize]_vars

\* TikTokAPI.__init__ (line 493)
InitLiveInfo ==
    /\ InitCommon
    /\ ExtIdle
    /\ FinIdle
    /\ LiveIdle
    /\ username = [s \in Sessions |-> "-"]

NextLiveInfo == LiveCall \/ LiveTryYtdlp \/ LiveTryWebScrape \/ LiveMerge

SpecLiveInfo == InitLiveInfo /\ [][NextLiveInfo]_vars

\* Two calls of get_live_info, one after the other, for a handle that is not
\* live during either.
NextLiveTwice == NextLiveInfo \/ LiveCallAgain

SpecLiveTwice == InitLiveInfo /\ [][NextLiveTwice]_vars

\* _start_monitor (lines 2738-2742): self.monitoring = True and the thread of
\* _monitor_loop is started
InitWatch ==
    /\ InitCommon
    /\ NameIdle
    /\ MoreIdle
    /\ FinIdle
    /\ LiveIdle
    /\ username = [s \in Sessions |-> "-"]
    /\ monitoring = TRUE /\ wpc = "while" /\ widx = 0 /\ cycle = 0
    /\ info = NotYet /\ rec = NotYet /\ began = NotYet /\ status = NotYet

NextWatch ==
    \/ WatchCycle \/ WatchNext \/ WatchResolve \/ WatchCheck \/ WatchStart
    \/ WatchPut \/ WatchSleep \/ WatchInterval \/ WatchStop

SpecWatch == InitWatch /\ [][NextWatch]_vars

\* Sessions of two handles that share the configuration and the output
\* directory, which is empty at first.
InitNames ==
    /\ InitCommon
    /\ FinIdle
    /\ LiveIdle
    /\ WatchIdle
    /\ MoreIdle
    /\ username = [s \in Sessions |-> "-"]
    /\ filename_pattern \in Patterns
    /\ dir = {}
    /\ tnow = [sec |-> 0, ms |-> 7]
    /\ NameSessionsIdle

NextNames == NameTick \/ \E s \in Named : NameStart(s) \/ NameSpawn(s) \/ NameEnd(s)

SpecNames == InitNames /\ [][NextNames]_vars

\* The results of n earlier calls at this clock value, created as files.
Earlier(name, n) ==
    {Path(name, c, ".mp4") : c \in 0..(IF n > CounterLimit THEN CounterLimit ELSE n - 1)}
    \cup (IF n > CounterLimit + 1 THEN {Path(name, -1, ".mp4")} ELSE {})

\* _generate_filename called repeatedly at one clock value, on a directory
\* that holds the results of earlier calls.
InitGenerate ==
    /\ InitCommon
    /\ FinIdle
    /\ LiveIdle
    /\ WatchIdle
    /\ MoreIdle
    /\ username = [s \in Sessions |-> "-"]
    /\ filename_pattern \in Patterns
    /\ tnow = [sec |-> 0, ms |-> 7]
    /\ \E n \in 0..(CounterLimit + 1) :
         dir = Earlier(Filename(filename_pattern, "alice", tnow, ""), n)
    /\ NameSessionsIdle

NextGenerate == GenCall

SpecGenerate == InitGenerate /\ [][NextGenerate]_vars

\* The watchlist as loaded from watchlist.json, an empty registry.
InitHandles ==
    /\ InitCommon
    /\ FinIdle
    /\ LiveIdle
    /\ WatchIdle
    /\ NameIdle
    /\ StatIdle
    /\ LateIdle
    /\ username = [s \in Sessions |-> "-"]
    /\ users \in Loadable
    /\ keys = {} /\ recording = {}

NextHandles ==
    \/ \E u \in Names : WatchlistAdd(u) \/ WatchlistRemove(u) \/ KeyStart(u)
    \/ \E i \in 1..MaxListed : KeyMonitor(i)
    \/ \E k \in Names : KeyEnd(k)

SpecHandles == InitHandles /\ [][NextHandles]_vars

\* Sessions whose capture has ended and whose _finalize_recording is about to
\* run, each in its own thread; the totals start at zero.
InitStats ==
    /\ InitCommon
    /\ FinIdle
    /\ LiveIdle
    /\ WatchIdle
    /\ NameIdle
    /\ KeyIdle
    /\ LateIdle
    /\ username = [s \in Sessions |-> "-"]
    /\ spc = [s \in Finalizers |-> "check"]
    /\ sreg = [s \in Finalizers |-> 0]
    /\ ssize \in [Finalizers -> FinalSizes]

NextStats ==
    \E s \in Finalizers :
      StatCheck(s) \/ StatLoad(s) \/ StatStoreCount(s) \/ StatStoreBytes(s) \/ StatSeconds(s)

SpecStats == InitStats /\ [][NextStats]_vars

\* The application after construction: monitoring is off, no loop thread.
InitLoops ==
    /\ InitCommon
    /\ FinIdle
    /\ LiveIdle
    /\ NameIdle
    /\ KeyIdle
    /\ StatIdle
    /\ LoopIdle
    /\ KillIdle
    /\ CapIdle
    /\ SelIdle
    /\ username = [s \in Sessions |-> "-"]
    /\ WatchIdle

NextLoops == LoopStart \/ LoopStop \/ \E l \in Loops : LoopStep(l)

SpecLoops == InitLoops /\ [][NextLoops]_vars

\* stop() has passed its guard (lines 1250-1254); self.process is None, or the
\* process runs or has exited, its exit status collected by the monitor
\* thread or not.
InitKill ==
    /\ InitCommon
    /\ FinIdle
    /\ LiveIdle
    /\ WatchIdle
    /\ NameIdle
    /\ KeyIdle
    /\ StatIdle
    /\ LoopIdle
    /\ CapIdle
    /\ SelIdle
    /\ username = [s \in Sessions |-> "-"]
    /\ kpc = "guard"
    /\ platform \in {"win32", "unix"}
    /\ kproc \in {"none", "alive", "exited", "reaped"}
    /\ sent = <<>> /\ kwaited = 0

NextKill ==
    \/ KillProcExit \/ KillMonPoll \/ KillGuard \/ KillAsk \/ KillWait \/ KillForce
    \/ KillWait3 \/ KillFallback \/ KillWait3b

SpecKill == InitKill /\ [][NextKill]_vars

\* A Recorder that is not recording is started, with or without a stream URL.
InitCapture ==
    /\ InitCommon
    /\ FinIdle
    /\ LiveIdle
    /\ ExtIdleButCap
    /\ username = [s \in Sessions |-> "-"]
    /\ cpc = "start" /\ stream_url \in {"", "stream"} /\ launched = <<>> /\ cret = "-"
    /\ cold = NoFile

NextCapture ==
    CapDirect \/ CapFfPoll \/ CapFallback \/ CapYtPoll \/ CapOld \/ CapAgain

SpecCapture == InitCapture /\ [][NextCapture]_vars

\* A selection is about to be made from the collected candidates.
InitSelect ==
    /\ InitCommon
    /\ FinIdle
    /\ LiveIdle
    /\ WatchIdle /\ NameIdle /\ KeyIdle /\ StatIdle /\ LoopIdle /\ KillIdle /\ CapIdle
    /\ username = [s \in Sessions |-> "-"]
    /\ qpc = "call" /\ quality \in Qualities /\ cands \in Candidates /\ chosen = "None"

NextSelect == SelExtract \/ SelFormat

SpecSelect == InitSelect /\ [][NextSelect]_vars

\* A thread that runs gets its turn.
SpecLoopsFair == SpecLoops /\ \A l \in Loops : WF_vars(LoopStep(l))

\* ================================================================ claims
\* A Recorder object has settled: no capture process of it runs, nobody is
\* converting its output, and every start of it has been finalized.
InStopPath(t, s) == tses[t] = s /\ pc[t] \in {"s_set", "s_wait", "s_mark", "s_convert"}
Settled(s) ==
    /\ process[s] # "alive" /\ orphans[s] = 0
    /\ monitors[s]["convert"] = 0
    /\ ~(\E t \in Threads : InStopPath(t, s))
    /\ finalized[s] >= started[s]

\* C1: in every reachable state of the registry, for every handle at most one
\* Recorder that was stored in the registry for that handle has is_recording set.
C1_AtMostOneActivePerHandle ==
    \A h \in Handles :
      Cardinality({s \in admitted : username[s] = h /\ is_recording[s]}) <= 1

\* C1 witness: a handle for which a second Recorder was admitted (and is
\* recording) after the first one ended.
C1_Witness ==
    \E h \in Handles : \E s1, s2 \in admitted :
      /\ s1 # s2 /\ username[s1] = h /\ username[s2] = h
      /\ is_recording[s2] /\ ~is_recording[s1]

\* C2: when two threads' MultiRecorder.start(h) calls overlap, no session was
\* active for h when they were made, and the capture process started and is
\* still alive, then once both have returned exactly one returned True, the
\* registry holds a recording session for h, and exactly one capture process
\* of h is running.
C2_ConcurrentStartAdmitsOne ==
    (duel.st = "two" /\ \A t \in duel.by : pc[t] = "idle")
      => /\ Cardinality({t \in duel.by : tret[t] = "True"}) = 1
         /\ Cardinality({t \in duel.by : tret[t] = "False"}) = 1
         /\ recorders[duel.h] # 0 /\ is_recording[recorders[duel.h]]
         /\ Cardinality({s \in Sessions : username[s] = duel.h /\ process[s] = "alive"}) = 1
         /\ \A s \in Sessions : username[s] = duel.h => orphans[s] = 0

\* C2 witness: both overlapping calls have returned.
C2_Witness ==
    /\ duel.st = "two" /\ Cardinality(duel.by) = 2
    /\ \A t \in duel.by : pc[t] = "idle" /\ tret[t] # "-"

\* C3: for every started session _finalize_recording runs exactly once: never
\* more often than the session was started, and once the session has settled
\* exactly as often.
C3_FinalizedExactlyOnce ==
    \A s \in Sessions :
      /\ finalized[s] <= started[s]
      /\ (~is_recording[s] /\ MonCount(s) = 0 /\ ~(\E t \in Threads : InStopPath(t, s)))
           => finalized[s] = started[s]

\* C4: MultiRecorder.start(h) is accepted (the registry check passes and a new
\* Recorder is constructed) only when every earlier session of h has settled.
C4_StartOnlyAfterSettled ==
    [][\A t \in Threads :
         (pc[t] = "m_lock" /\ pc'[t] = "r_guard")
           => \A s \in Sessions : username[s] = targ[t] => Settled(s)]_vars

\* C5: for one recording session at most one stop() call passes the guard and
\* runs the shutdown / conversion / finalize path; every other one is a no-op.
C5_StopRunsOnce == \A s \in Sessions : stopRuns[s] <= 1

\* C11: a Recorder never has two live capture processes: while the process
\* self.process refers to is alive, no earlier process of the object is still
\* running (start() on an object that is starting or recording spawns nothing).
C11_NoSecondCaptureProcess ==
    \A s \in Sessions : process[s] = "alive" => orphans[s] = 0

\* C12: when the start() of a freshly constructed Recorder has returned False
\* (every attempt failed to start), the Recorder is not recording, no
\* record-start notification was sent for it, it has no monitor thread, and its
\* last error is set and names the tool of the last attempt, yt-dlp.
C12_FailedStartReportsError ==
    \A t \in Threads :
      (pc[t] = "m_reg" /\ tret[t] = "False")
        => /\ ~is_recording[tses[t]]
           /\ notified[tses[t]] = 0
           /\ MonCount(tses[t]) = 0
           /\ last_error[tses[t]] = "yt-dlp"

\* C12 witness: start() has returned False after the yt-dlp process exited in
\* its grace window.
C12_Witness ==
    \E t \in Threads :
      /\ pc[t] = "m_reg" /\ tret[t] = "False"
      /\ process[tses[t]] = "exited" /\ last_error[tses[t]] = "yt-dlp"

\* C13: a stop() call that passed the guard eventually returns to its caller,
\* whether the process exited or survived the shutdown; and on the step by
\* which it returns is_recording and is_stopping are False and
\* _finalize_recording has run in this call.
C13_AcceptedStopReturns ==
    /\ \A t \in Threads : (pc[t] = "s_set") ~> (pc[t] = "sa_loop")
    /\ [][\A t \in Threads :
            (pc[t] = "s_convert" /\ pc'[t] # "s_convert")
              => /\ pc'[t] = StopReturnPc(t)
                 /\ ~is_recording'[tses[t]] /\ ~is_stopping'[tses[t]]
                 /\ finalized'[tses[t]] = finalized[tses[t]] + 1]_vars

\* C13 witness: a stop() call has returned although the process survived the
\* forced kill.
C13_Witness ==
    \E t \in Threads :
      /\ pc[t] = "sa_loop" /\ stopRuns[tses[t]] = 1 /\ orphans[tses[t]] = 1
      /\ process[tses[t]] = "None" /\ finalized[tses[t]] >= 1
      /\ ~is_recording[tses[t]] /\ ~is_stopping[tses[t]]

\* C14: when a recording session's capture process has exited on its own and
\* no stop() has been accepted for it, then, with the monitor thread scheduled,
\* the session eventually is no longer recording and _finalize_recording (which
\* fires the completion callback) has run, unless a stop() is accepted first.
C14_ProcessExitFinalizes ==
    \A s \in Sessions :
      (is_recording[s] /\ process[s] = "exited" /\ stopRuns[s] = 0)
        ~> ((~is_recording[s] /\ finalized[s] >= 1) \/ stopRuns[s] > 0)

\* C14 witness: a session whose process exited was finalized by its monitor
\* thread, with no stop() accepted.
C14_Witness ==
    \E s \in Sessions :
      /\ started[s] = 1 /\ stopRuns[s] = 0 /\ process[s] = "exited"
      /\ ~is_recording[s] /\ finalized[s] = 1 /\ MonCount(s) = 0

\* C15: a session leaves Recording (is_recording goes from True to False) only
\* in a step taken when its capture process has exited or while a caller's
\* stop() is running on it; a step of its monitor thread never changes the
\* process, and ends the recording only when the process has exited, however
\* many consecutive iterations found no file growth or no file at all.
C15_OnlyExitOrStopEndsRecording ==
    [][\A s \in Sessions :
         /\ (is_recording[s] /\ ~is_recording'[s])
              => (process[s] = "exited" \/ \E t \in Threads : InStopPath(t, s))
         /\ (monitors'[s] # monitors[s])
              => /\ process'[s] = process[s]
                 /\ orphans'[s] = orphans[s]
                 /\ (monitors'[s]["c_guard"] > monitors[s]["c_guard"]
                       => process[s] = "exited")]_vars

C15_Witness ==
    \E s \in Sessions :
      /\ stuck_count[s] = MaxStuck /\ monitors[s]["loop"] = 1
      /\ is_recording[s] /\ process[s] = "alive" /\ stopRuns[s] = 0

\* C23: no thread holds the registry lock while it spawns a capture process,
\* waits out the start grace window, waits for or kills a process, or converts
\* the output.
C23_NoBlockingUnderLock ==
    \A t \in Threads :
      lock = t => pc[t] \notin {"r_reset", "ff_poll", "yt_spawn", "yt_poll",
                                "s_wait", "s_mark", "s_convert"}

\* ------------------------------------------------- claims on finalization
\* C6: once the captured file is known, in every state during and after
\* finalization the captured file exists, or a ladder step's output has been
\* verified and accepted and that output exists.
C6_RawOrAcceptedOutputExists ==
    raw0 # NoFile
      => \/ Exists(fs, raw0)
         \/ accepted # 0 /\ Exists(fs, mp4_output)

\* C6 witness: finalization has returned, the captured file was deleted and the
\* accepted output of step 1 is there.
C6_Witness ==
    /\ fpc = "done" /\ raw0 # NoFile /\ ~Exists(fs, raw0)
    /\ accepted = 1 /\ Exists(fs, mp4_output)

\* C7: when finalization has returned because the tool is missing or because
\* all three steps were rejected, the captured file exists with the size it
\* had and output_file is its path.
C7_FailureKeepsRaw ==
    (fpc = "done" /\ outcome \in {"notool", "rejected"})
      => /\ raw0 # NoFile /\ Exists(fs, raw0) /\ fs[raw0] = fs0[raw0]
         /\ output_file = raw0

\* C7 witness: all three steps were run and rejected.
C7_Witness ==
    /\ fpc = "done" /\ outcome = "rejected" /\ ran = {1, 2, 3} /\ accepted = 0
    /\ output_file = raw0

C9_SmallRawIsSkipped ==
    raw0 # NoFile
      => /\ fs0[raw0] < 51200
              => /\ ran = {} /\ fs = fs0
                 /\ fpc = "done" => output_file = raw0
         /\ (fs0[raw0] >= 51200 /\ fpc = "done")
              => (1 \in ran \/ outcome = "notool")

\* C9 witness: a captured file one byte below the threshold was skipped.
C9_Witness ==
    /\ fpc = "done" /\ raw0 # NoFile /\ fs0[raw0] = 51199
    /\ outcome = "skipped" /\ output_file = raw0

\* C10: when finalization has returned after a step was accepted or after all
\* steps were rejected, every file it created or changed is the accepted
\* output: nothing a rejected step wrote is left.
C10_NoRejectedOutputLeft ==
    (fpc = "done" /\ outcome \in {"accepted", "rejected"})
      => \A p \in Paths :
           (Exists(fs, p) /\ fs[p] # fs0[p]) => (accepted # 0 /\ p = mp4_output)

\* C32: the ladder's steps are run in the order 1 (remux), 2 (audio
\* transcode), 3 (full transcode): a step is run only when all the steps before
\* it and no other were run and none was accepted, the step after step k is
\* taken up only when step k was run and its output was not verified, and once
\* a step is accepted the steps run are exactly those up to it.
C32_LadderInOrder ==
    [][/\ ran' # ran => (ran = 1..(step - 1) /\ ran' = 1..step /\ accepted = 0)
       /\ step' # step
            => \/ step' = 1 /\ ran = {} /\ accepted = 0
               \/ step' = step + 1 /\ step \in ran /\ fpc = "verify" /\ ~Verified
       /\ accepted' # 0 => ran' = 1..accepted']_vars

\* C32 witness: the remux was rejected and the audio transcode accepted.
C32_Witness ==
    fpc = "done" /\ outcome = "accepted" /\ ran = {1, 2} /\ accepted = 2

\* C33: the output of a ladder step is accepted exactly when the tool exited
\* with code 0 and the output is large enough: at least half of the input's
\* size for step 1, at least three tenths of it for step 2 (an output of
\* exactly that size is accepted), more than the absolute floor for step 3.
C33_AcceptedExactlyAtThreshold ==
    [][fpc = "verify"
         => (accepted' = step
               <=> /\ returncode = 0 /\ Exists(fs, mp4_output)
                   /\ CASE step = 1 -> 2 * fs[mp4_output] >= file_size
                        [] step = 2 -> 10 * fs[mp4_output] >= 3 * file_size
                        [] OTHER -> fs[mp4_output] > MinTranscodeSize)]_vars

\* ------------------------------------- claims on _finalize_recording
\* C16: when _convert_to_mp4 accepted a converted output and
\* _finalize_recording has run, the record-end notification and the completion
\* callback carry the values of the final file: the size is the (positive)
\* size of the final output, and the path is the accepted output path, which
\* ends in .mp4.
C16_ReportsFinalFile ==
    (outcome = "accepted" /\ noticed.called)
      => /\ Exists(fs, output_file) /\ fs[output_file] > 0
         /\ noticed.file_size = FormatSize(fs[output_file])
         /\ completed.called
              => /\ completed.file_size = FormatSize(fs[output_file])
                 /\ completed.output_file = mp4_output
                 /\ completed.output_file.ext = ".mp4"

\* C17: once _finalize_recording has run, every later get_duration(),
\* get_file_size() and final-path query returns the value that was reported
\* at completion.
C17_QueriesStayFixed ==
    (noticed.called /\ asked.called)
      => /\ asked.duration = noticed.duration
         /\ asked.file_size = noticed.file_size
         /\ completed.called => asked.output_file = completed.output_file

\* C18: when _convert_to_mp4 found neither a raw file nor an output file and
\* _finalize_recording has run, the session has ended as failed: an error is
\* recorded and get_last_error() returns it, the totals are unchanged, and no
\* completion was reported with a final path that does not exist.
C18_NoFileEndsFailed ==
    (outcome = "nofile" /\ noticed.called)
      => /\ last_error[1] # "None"
         /\ config.total_recordings = 0 /\ config.total_size_bytes = 0
         /\ config.total_duration_seconds = 0
         /\ ~(completed.called /\ ~Exists(fs, completed.output_file))

\* --------------------------------------------- claims on get_live_info
\* C19: get_live_info never raises to its caller; and when both strategies
\* were run and both failed, it returns is_live = False and success = False
\* with a non-empty error, which is the error of _try_ytdlp if that produced
\* one, otherwise the error of _try_web_scrape if that produced one, otherwise
\* the generic error.
C19_FailureIsReturned ==
    /\ lpc # "raised"
    /\ (lpc = "returned" /\ tried = {"ytdlp", "web"}
          /\ ~yt_result.success /\ ~web_result.success)
         => /\ ~result.is_live /\ ~result.success
            /\ Truthy(result.error)
            /\ result.error =
                 IF yt_result.error # NoError THEN yt_result.error
                 ELSE IF web_result.error # NoError THEN web_result.error
                 ELSE "Tidak bisa mendapatkan info live"

C19_Witness ==
    /\ lpc = "returned" /\ tried = {"ytdlp", "web"}
    /\ yt_in.kind = "none" /\ web_in.exc = "AttributeError"
    /\ result.error = "Scrape error: " /\ ~result.success

\* C20: every dictionary get_live_info returns carries an error only if
\* is_live is False, and has is_live equal to success, also when a strategy
\* raised after it had marked its result live.
C20_ErrorOnlyWhenNotLive ==
    lpc = "returned"
      => /\ (result.error # NoError => ~result.is_live)
         /\ result.is_live = result.success

\* C21: when get_live_info is called twice in a row for a handle that is not
\* live, both calls return is_live = False, and a call in which a strategy was
\* told that the handle is not live returns the not-live error, not the error of
\* a failed resolution.
C21_OfflineIsConfirmedTwice ==
    (earlier.called /\ lpc = "returned")
      => /\ ~earlier.result.is_live /\ ~result.is_live
         /\ earlier.told => earlier.result.error = "User tidak sedang live"
         /\ ToldOffline(yt_in, web_in) => result.error = "User tidak sedang live"

\* --------------------------------------------- claims on _monitor_loop
\* C22: in a pass over the watched handles, an error raised while resolving or
\* starting one handle does not end the loop, and as long as monitoring is not
\* switched off the pass still resolves every handle and still calls
\* multi.start for every handle found live and not recording.
C22_ErrorDoesNotAbortCycle ==
    /\ wpc # "dead"
    /\ (wpc = "interval" /\ monitoring)
         => \A i \in Watched :
              /\ info[i] # "-"
              /\ (info[i] = "live" /\ rec[i] = "no") => began[i] # "-"

C22_Witness ==
    /\ wpc = "interval" /\ monitoring
    /\ info[1] = "raised" /\ began[2] = "raised"
    /\ info[MaxWatch] = "live" /\ began[MaxWatch] = "True"

\* --------------------------------------------- claims on file names
\* C24: two sessions that are active at the same time have different raw
\* paths and different output paths, whatever the file name pattern and the
\* times they were started at.
C24_ActiveSessionsHaveOwnPaths ==
    \A s1, s2 \in Named :
      (s1 # s2 /\ NameActive(s1) /\ NameActive(s2))
        => nraw[s1] # nraw[s2] /\ nout[s1] # nout[s2]

\* C25: _generate_filename never returns a path that exists in the output
\* directory, however many results of earlier calls with the same pattern,
\* handle, title and clock value have been created as files.
C25_GeneratedPathIsNew == gens > 0 => ~existed

\* C26: a session never overwrites a file that existed before: the raw path
\* does not exist when the capture tool opens it, and the .mp4 path does not
\* exist when the conversion writes it.
C26_NothingOverwritten == \A s \in Named : ~clobbered[s] /\ ~overwrote[s]

\* ------------------------------------------ claims on the registry's start
\* C28: a MultiRecorder.start that returns False leaves the registry map as
\* it was: from the moment the call takes the lock until it returns, the map
\* changes only in the storing step of a call whose Recorder.start returned
\* True; and a call that returns False because the handle has an active
\* session changes no Recorder field, spawns no process, starts no monitor
\* thread and emits no notification.
C28_FailedStartLeavesRegistry ==
    [][\A t \in Threads :
         /\ (pc[t] = "m_lock" /\ pc'[t] # "m_lock") => recorders' = recorders
         /\ (tctx[t] = "multi" /\ lock = t /\ ~(pc[t] = "m_reg" /\ tret[t] = "True"))
              => recorders' = recorders
         /\ (pc[t] = "m_reg" /\ tret[t] = "False") => recorders' = recorders
         /\ (pc[t] = "m_lock" /\ pc'[t] = "idle")
              => /\ tret'[t] = "False"
                 /\ UNCHANGED <<recorders, recVars, monitors, started, notified,
                                admitted>>]_vars

\* A start whose Recorder.start failed is about to return while the registry
\* holds an entry.
C28_Witness ==
    \E t \in Threads :
      /\ pc[t] = "m_reg" /\ tret[t] = "False"
      /\ \E h \in Handles : recorders[h] # 0

C27_HandlesAreNormalized ==
    /\ \A u \in Elements(users) : NormalizeUsername(u) = u
    /\ \A k \in keys : NormalizeUsername(k) = k
    /\ \A k1, k2 \in recording :
         NormalizeUsername(k1) = NormalizeUsername(k2) => k1 = k2

\* ------------------------------------------ claims on shared statistics
RECURSIVE CountedBytes(_)
\* The sizes of the final files of the sessions of S that are counted, added.
CountedBytes(S) ==
    IF S = {} THEN 0
    ELSE LET s == CHOOSE x \in S : TRUE
         IN (IF Counted(s) THEN ssize[s] ELSE 0) + CountedBytes(S \ {s})

\* C30: when all the sessions that share the configuration have finalized,
\* total_recordings has grown by the number of sessions whose final file
\* exists and exceeds 10 KiB, and total_size_bytes by the sum of their sizes.
C30_NoUpdateLost ==
    (\A s \in Finalizers : spc[s] = "done")
      => /\ config.total_recordings = Cardinality({s \in Finalizers : Counted(s)})
         /\ config.total_size_bytes = CountedBytes(Finalizers)

\* ------------------------------------------ claims on monitor loop threads
\* C31: at any time at most one thread runs _monitor_loop.
C31_OneLoopThread == Cardinality({l \in Loops : LoopRunning(l)}) <= 1

\* C39: a loop thread that runs while monitoring is switched off ends, unless
\* monitoring is switched on again; and a loop takes up a handle only in a
\* step in which it finds monitoring switched on.
C39_CancelledLoopEnds ==
    /\ \A l \in Loops :
         (LoopRunning(l) /\ ~monitoring) ~> (~LoopRunning(l) \/ monitoring)
    /\ [][\A l \in Loops : (lps[l] # "body" /\ lps'[l] = "body") => monitoring]_vars

\* Monitoring was switched off while a loop was in the middle of its pause.
C39_Witness ==
    \E l \in Loops : lps[l] = "nap" /\ lnap[l] > 0 /\ lnap[l] < MaxInterval /\ ~monitoring

\* ------------------------------------------------ claims on stop()
\* C34: whatever stop() does to force the process to end (SIGKILL, taskkill,
\* kill) comes after its graceful request (made, or tried and not delivered),
\* and after a graceful wait that found the process alive at its end or a
\* request that could not be delivered; when the graceful wait ended because
\* the process had exited, nothing is done to force it.
C34_GracefulBeforeForce ==
    \A i \in 1..Len(sent) :
      sent[i] \in Force
        => /\ \E j \in 1..(i - 1) : sent[j] \in Graceful \cup {"undelivered"}
           /\ \E j \in 1..(i - 1) : sent[j] \in {"timeout", "undelivered"}
           /\ \A j \in 1..Len(sent) : sent[j] # "exit"

\* C34 witness: the process ignored the interrupt, the wait timed out and the
\* process group was killed.
C34_Witness == kpc = "done" /\ sent = <<"SIGINT", "timeout", "SIGKILL">>

\* ------------------------------------------------ claims on the capture tools
\* C35: ffmpeg is launched only as the first tool, only with a stream URL and
\* on that URL; yt-dlp is launched on the page URL, as the first tool only when
\* ffmpeg was not launched, as the second only after the poll found the ffmpeg
\* process exited, and then with the same raw path; when the poll found the
\* ffmpeg process alive, nothing else is launched.
C35_DirectFirstThenFallback ==
    /\ Len(launched) <= 2
    /\ \A i \in 1..Len(launched) :
         /\ launched[i].tool = "ffmpeg"
              => i = 1 /\ stream_url # "" /\ launched[i].url = stream_url
         /\ launched[i].tool = "yt-dlp"
              => /\ launched[i].url = PageUrl /\ launched[i].url # stream_url
                 /\ i = 2 => /\ launched[1].tool = "ffmpeg"
                             /\ launched[1].found = "exited"
                             /\ launched[2].out = launched[1].out
    /\ (launched # <<>> /\ launched[1].found = "alive") => Len(launched) = 1

\* ------------------------------------------------ claims on get_live_info (2)
\* C36: the web scrape is tried only after yt-dlp was tried and its result was
\* not a success; a call that returns after a successful yt-dlp result returns
\* that result, its username the normalized name, and has not tried the web
\* scrape; an empty normalized name is answered with the error before any
\* strategy is tried.
C36_YtdlpFirstThenWeb ==
    /\ "web" \in tried => "ytdlp" \in tried /\ ~yt_result.success
    /\ lpc = "web" => "ytdlp" \in tried /\ ~yt_result.success
    /\ (lpc = "returned" /\ yt_result.success)
         => /\ result = [yt_result EXCEPT !.username = uname]
            /\ tried = {"ytdlp"}
    /\ uname = <<>>
         => /\ tried = {}
            /\ lpc = "returned"
                 => ~result.success /\ result.error = "Username tidak boleh kosong"

\* C36 witness: yt-dlp found the stream and its result was returned.
C36_Witness ==
    /\ lpc = "returned" /\ uname # <<>> /\ tried = {"ytdlp"}
    /\ result.success /\ result.username = uname /\ result.stream_url = "url"

\* ------------------------------------------------ claims on the URL selection
\* C37: a selection returns the URL of the first candidate matching the
\* earliest preference that matches a candidate with a URL; when no preference
\* matches, the URL of the first candidate that has one; and no URL only when
\* no candidate has one.
C37_FirstMatchThenFirstAvailable ==
    qpc \in {"scraped", "ytdlp"} =>
      LET prefs == Preferred(quality)
          Hit(i, j) == Matches(prefs[i], cands[j])
          anyHit == \E i \in 1..Len(prefs), j \in 1..Len(cands) : Hit(i, j)
          withUrl == {j \in 1..Len(cands) : cands[j].url # ""}
      IN /\ \A i \in 1..Len(prefs), j \in 1..Len(cands) :
              ( /\ Hit(i, j)
                /\ \A k \in 1..(j - 1) : ~Hit(i, k)
                /\ \A h \in 1..(i - 1), k \in 1..Len(cands) : ~Hit(h, k) )
              => chosen = cands[j].url
         /\ (~anyHit /\ withUrl # {})
              => \E j \in withUrl : chosen = cands[j].url /\ \A k \in withUrl : j <= k
         /\ chosen \in {"None", ""} => withUrl = {}

\* ------------------------------------------------ claims on the watchlist loop (2)
\* C38: in a pass the handles are taken in list order, one after the other;
\* multi.start is called for a handle exactly when its resolution in this
\* pass said live and is_recording said no; and the result of every
\* resolution that returned is stored in user_status.
C38_StartOnlyLiveAndIdle ==
    \A i \in Watched :
      /\ info[i] # "-" => i <= widx /\ \A k \in 1..(i - 1) : info[k] # "-"
      /\ rec[i] # "-" => info[i] = "live"
      /\ began[i] # "-" => info[i] = "live" /\ rec[i] = "no"
      /\ (info[i] = "live" /\ rec[i] = "no")
           => began[i] # "-" \/ (widx = i /\ wpc = "start")
      /\ info[i] \in {"offline", "live"} => status[i] = info[i]

\* C38 witness: the first handle was live and not recording and was started,
\* the second was offline and was only recorded.
C38_Witness ==
    /\ wpc = "put" /\ widx = 2
    /\ info[1] = "live" /\ rec[1] = "no" /\ began[1] = "True"
    /\ info[2] = "offline" /\ began[2] = "-" /\ status[2] = "offline"

\* ------------------------------------------------ claims on stop_all
\* C40: when stop_all returns, the registry is empty and no session that was
\* in it has a live capture process in self.process or a conversion in
\* progress in its monitor thread.
C40_StopAllSettlesEverySession ==
    [][\A t \in Threads :
         (pc[t] = "sa_loop" /\ todo[t] = {} /\ pc'[t] = "idle")
           => /\ \A h \in Handles : recorders'[h] = 0
              /\ \A s \in {recorders[h] : h \in Handles} \ {0} :
                   /\ process'[s] # "alive"
                   /\ monitors'[s]["convert"] = 0]_vars

====
